---- MODULE Spec2Model ----
(***************************************************************************)
(* A model of the core of the rusty-daw-engine plug-in host:               *)
(*   - the schedule compiler  (src/src/graph/compiler.rs and               *)
(*     src/src/graph/compiler/delay_comp_task.rs),                         *)
(*   - the plug-in host main-thread controller                             *)
(*     (src/src/plugin_host/main_thread.rs, src/src/graph/plugin_host.rs), *)
(*   - the plug-in host audio-thread processor                             *)
(*     (src/src/graph/plugin_host.rs).                                     *)
(***************************************************************************)
EXTENDS Integers, Sequences, FiniteSets, TLC

(***************************************************************************)
(* Bounds of the model.                                                    *)
(***************************************************************************)
\* the longest abstract schedule a compile walks
MaxEntries == 2
\* the number of calls of compile_graph in one behaviour
MaxCompiles == 3
\* the number of processors activate creates in one behaviour
MaxProcessors == 2
\* the most events the plug-in writes to out_events in one block
MaxOutEvents == 3
\* events in an event-in buffer at the start of a block
MaxEventsIn == 2

(***************************************************************************)
(*                      PART 1: THE SCHEDULE COMPILER                      *)
(***************************************************************************)

\* PortType::*_TYPE_IDX as matched by construct_delay_comp_task; "unknown"
\* stands for any other type index (the `_` arm).
PortTypes == {"audio", "note", "param_event"}
TypeIdxs == PortTypes \cup {"unknown"}

\* The ids of the nodes an abstract schedule can name.
NodeIDs == {"graph_in", "graph_out", "A"}
\* The edges a delay can be inserted on.
EdgeIDs == {1, 2}
\* InsertedDelay.delay is an f64; it is modelled in tenths of a sample:
\* -0.6, -0.4, 0.0, 1.4, 2.0
DelayTenths == {-6, -4, 0, 14, 20}

NoEntry ==
    [kind |-> "None", id |-> "none", edge |-> 0, delay10 |-> 0,
     type |-> "audio", inb |-> 0, outb |-> 0]

\* ScheduleEntry::Node
NodeEntry(id, inb, outb) ==
    [NoEntry EXCEPT !.kind = "Node", !.id = id, !.inb = inb, !.outb = outb]

\* ScheduleEntry::Delay
DelayEntry(edge, d10, type, inb, outb) ==
    [NoEntry EXCEPT !.kind = "Delay", !.edge = edge, !.delay10 = d10,
                    !.type = type, !.inb = inb, !.outb = outb]

\* ScheduleEntry::Sum (two inputs, buffers 0 and 1, summed into outb; the
\* planner never assigns an input as the output, outb = 1 is such a schedule)
SumEntry(outb) ==
    [NoEntry EXCEPT !.kind = "Sum", !.inb = 0, !.outb = outb]

\* The entries the abstract planner can hand to the compiler: every node, audio
\* delays on every edge with every delay, one delay of each other port type,
\* and two sums.
ScheduleEntries ==
    {NodeEntry(id, 0, 1) : id \in NodeIDs}
    \cup {DelayEntry(e, d, "audio", 0, 1) : e \in EdgeIDs, d \in DelayTenths}
    \cup {DelayEntry(1, 14, t, 0, 1) : t \in TypeIdxs \ {"audio"}}
    \cup {SumEntry(1), SumEntry(2)}

Abs(x) == IF x < 0 THEN -x ELSE x

\* f64::round (half away from zero) followed by `as i64`, on tenths:
\* -0.4 rounds to -0.0, which is 0 as an i64.
RoundToI64(d10) ==
    IF d10 < 0 THEN -((Abs(d10) + 5) \div 10) ELSE (d10 + 5) \div 10

NoTask ==
    [kind |-> "None", id |-> "none", edge |-> 0, delay |-> 0, node |-> 0,
     ins |-> {}, outs |-> {}]

\* DelayCompKey { edge, delay } in the map of port type t
DelayCompKey(t, edge, delay) == [type |-> t, edge |-> edge, delay |-> delay]

DelayTaskKindMutant(t) == "AudioDelayComp"
DelayTaskKind(t) ==
    CASE t = "audio" -> "AudioDelayComp"
      [] t = "note" -> "NoteDelayComp"
      [] OTHER -> "ParamEventDelayComp"

DelayTaskKinds == {"AudioDelayComp", "NoteDelayComp", "ParamEventDelayComp"}

TaskPortType(kind) ==
    CASE kind = "AudioDelayComp" -> "audio"
      [] kind = "NoteDelayComp" -> "note"
      [] OTHER -> "param_event"

VARIABLES
    delay_comp_nodes,   \* shared_pool.delay_comp_nodes: the three maps, as one
                        \* set of [key, node, active]
    live_nodes,         \* delay node instances kept alive by the schedule the
                        \* audio thread runs (reference counted)
    cg_pc,              \* position in compile_graph: "idle", "walk", "done"
    abstract_schedule,  \* the entries of the abstract schedule walked so far
    tasks,              \* the local `tasks` vector of compile_graph
    cg_result,          \* what the last compile_graph returned
    prev_compile,       \* the previous call: the delay keys of its abstract
                        \* schedule, the delay nodes of its schedule, the
                        \* cache it left
    num_compiles,       \* calls of compile_graph so far
    ref_compile         \* history: a compile remembered for comparison, its
                        \* abstract schedule, its tasks, the cache it started
                        \* from

cvars == <<delay_comp_nodes, live_nodes, cg_pc, abstract_schedule, tasks,
           cg_result, prev_compile, num_compiles, ref_compile>>

VARIABLES
    plugin_state,     \* C5, the shared state word
    host_request,     \* the request flags the processor reads: a subset of
                      \* {"DEACTIVATE", "PROCESS"}
    mt,               \* the fields of PluginHostMainThread
    procs,            \* the processors created so far, with their queues and
                      \* how far their deactivation has come
    engine,           \* who holds which processor: the running schedule, the
                      \* published schedule, the processors handed out to drop
    audio,            \* the block the audio thread is in
    plug_active,      \* whether the plug-in's main-thread part is activated
    last,             \* history: the main-thread operation or the drop that
                      \* has just returned, and its result
    blk,              \* history: the block a processor has just run, and
                      \* the status of the last block
    track             \* history: the set_param_value calls not yet drained,
                      \* the process calls since DEACTIVATE was raised, the
                      \* gesture not yet polled

hvars == <<plugin_state, host_request, mt, procs, engine, audio, plug_active,
           last, blk, track>>

NoResult == [kind |-> "None", schedule |-> <<>>, abs |-> <<>>, has_schedule |-> FALSE]

\* no compile is remembered
NoRef == [n |-> 0, abs |-> <<>>, tasks |-> <<>>, cache |-> {}]

InitCompiler ==
    /\ ref_compile = NoRef
    /\ delay_comp_nodes = {}
    /\ live_nodes = {}
    /\ cg_pc = "idle"
    /\ abstract_schedule = <<>>
    /\ tasks = <<>>
    /\ cg_result = NoResult
    /\ prev_compile = [keys |-> {}, nodes |-> {}, has_schedule |-> FALSE,
                       cache |-> {}]
    /\ num_compiles = 0

Range(s) == {s[i] : i \in 1..Len(s)}

CacheKeys(cache) == {n.key : n \in cache}

\* The node instances some handle still points to: the cache, the tasks being
\* built and the schedule the audio thread still runs.
NodesInUse == {n.node : n \in delay_comp_nodes}
                \cup {t.node : t \in Range(tasks)}
                \cup live_nodes

\* Shared*DelayCompNode::new(...): a new instance, distinct from every live one.
NewNode == CHOOSE n \in 1..(Cardinality(NodesInUse) + 1) : n \notin NodesInUse

\* lines 42-50: node.active = false for every node of the three maps
MarkAllInactiveMutant(cache) == cache
MarkAllInactive(cache) == {[n EXCEPT !.active = FALSE] : n \in cache}

\* lines 120-125: drain().filter(|(_, node)| node.active).collect()
RetainActiveMutant(cache) == cache
RetainActive(cache) == {n \in cache : n.active}

\* entry(delay_comp_key).or_insert_with(|| new node); shared_node.active = true
EntryOrInsertMutant(cache, key, fresh) ==
    {n \in cache : n.key # key} \cup {[key |-> key, node |-> fresh, active |-> TRUE]}
EntryOrInsert(cache, key, fresh) ==
    IF key \in CacheKeys(cache)
    THEN {IF n.key = key THEN [n EXCEPT !.active = TRUE] ELSE n : n \in cache}
    ELSE cache \cup {[key |-> key, node |-> fresh, active |-> TRUE]}

NodeOfKeyMutant(cache, key) == num_compiles
NodeOfKey(cache, key) == (CHOOSE n \in cache : n.key = key).node

\* construct_delay_comp_task: "err" for the two UnexpectedError returns,
\* otherwise the new cache and the delay task.
construct_delay_comp_task(e, delay, cache, fresh) ==
    IF delay < 0 THEN [err |-> TRUE, cache |-> cache, task |-> NoTask]
    ELSE IF e.type \notin PortTypes THEN [err |-> TRUE, cache |-> cache, task |-> NoTask]
    ELSE LET key == DelayCompKey(e.type, e.edge, delay)
             c2 == EntryOrInsert(cache, key, fresh)
         IN [err |-> FALSE,
             cache |-> c2,
             task |-> [kind |-> DelayTaskKind(e.type), id |-> "none",
                       edge |-> e.edge, delay |-> delay,
                       node |-> NodeOfKey(c2, key),
                       ins |-> {e.inb}, outs |-> {e.outb}]]

\* lines 62-89: the task of a Node entry
NodeTask(e) ==
    [NoTask EXCEPT !.kind = IF e.id = "graph_in" THEN "GraphIn"
                            ELSE IF e.id = "graph_out" THEN "GraphOut"
                            ELSE "Plugin",
                   !.id = e.id, !.ins = {e.inb}, !.outs = {e.outb}]

\* lines 109-113: the task of a Sum entry
SumTask(e) ==
    [NoTask EXCEPT !.kind = "Sum", !.ins = {0, 1}, !.outs = {e.outb}]

\* Verifier::verify_schedule_for_race_conditions: a buffer that is both an input
\* and an output of one task
VerifierRejects(sched) == \E i \in 1..Len(sched) : sched[i].ins \cap sched[i].outs # {}

\* the delay node each delay task of a schedule points to, by key
DelayNodesOf(sched) ==
    {[key |-> DelayCompKey(TaskPortType(t.kind), t.edge, t.delay), node |-> t.node] :
        t \in {x \in Range(sched) : x.kind \in DelayTaskKinds}}

\* the cache keys of the delay entries of a walked abstract schedule
AbsDelayKeys(abs) ==
    {DelayCompKey(e.type, e.edge, RoundToI64(e.delay10)) :
        e \in {x \in Range(abs) : /\ x.kind = "Delay"
                                   /\ x.type \in PortTypes
                                   /\ RoundToI64(x.delay10) >= 0}}

\* lines 28-58: the abstract compile, the reset of the `active` flags
compile_begin ==
    /\ cg_pc \in {"idle", "done"}
    /\ num_compiles < MaxCompiles
    /\ num_compiles' = num_compiles + 1
    /\ prev_compile' = [keys |-> AbsDelayKeys(abstract_schedule),
                        nodes |-> DelayNodesOf(cg_result.schedule),
                        has_schedule |-> cg_result.has_schedule,
                        cache |-> delay_comp_nodes]
    /\ abstract_schedule' = <<>>
    /\ tasks' = <<>>
    /\ \E abstract_ok \in BOOLEAN :
         IF abstract_ok
         THEN /\ delay_comp_nodes' = MarkAllInactive(delay_comp_nodes)
              /\ cg_pc' = "walk"
              /\ cg_result' = NoResult
         ELSE \* graph_helper.compile()? returned early
              /\ cg_result' = [NoResult EXCEPT !.kind = "AbstractCompileError"]
              /\ cg_pc' = "done"
              /\ UNCHANGED delay_comp_nodes
    /\ UNCHANGED <<live_nodes, ref_compile, hvars>>

\* lines 60-115: one iteration of the loop over abstract_schedule.schedule
compile_entry_of(entries) ==
    /\ cg_pc = "walk"
    /\ Len(abstract_schedule) < MaxEntries
    /\ \E e \in entries :
         /\ abstract_schedule' = Append(abstract_schedule, e)
         /\ IF e.kind = "Delay"
            THEN LET r == construct_delay_comp_task(e, RoundToI64(e.delay10),
                                                    delay_comp_nodes, NewNode)
                 IN IF r.err
                    THEN /\ cg_result' = [NoResult EXCEPT !.kind = "UnexpectedError"]
                         /\ cg_pc' = "done"
                         /\ UNCHANGED <<tasks, delay_comp_nodes>>
                    ELSE /\ tasks' = Append(tasks, r.task)
                         /\ delay_comp_nodes' = r.cache
                         /\ UNCHANGED <<cg_pc, cg_result>>
            ELSE /\ tasks' = Append(tasks, IF e.kind = "Node" THEN NodeTask(e) ELSE SumTask(e))
                 /\ UNCHANGED <<cg_pc, cg_result, delay_comp_nodes>>
    /\ UNCHANGED <<live_nodes, prev_compile, num_compiles, ref_compile, hvars>>

compile_entry == compile_entry_of(ScheduleEntries)

\* lines 146-150: what compile_graph returns once the schedule is built
CompileReturnMutant(sched, abs) ==
    [kind |-> "Ok", schedule |-> sched, abs |-> <<>>, has_schedule |-> TRUE]
CompileReturn(sched, abs) ==
    IF VerifierRejects(sched)
    THEN [kind |-> "VerifierError", schedule |-> sched, abs |-> abs, has_schedule |-> TRUE]
    ELSE [kind |-> "Ok", schedule |-> sched, abs |-> <<>>, has_schedule |-> TRUE]

\* lines 117-150: the eviction, the new schedule and the verifier
finish_schedule ==
    /\ cg_pc = "walk"
    /\ delay_comp_nodes' = RetainActive(delay_comp_nodes)
    /\ cg_result' = CompileReturn(tasks, abstract_schedule)
    /\ cg_pc' = "done"
    \* an Ok schedule is published and replaces the one the audio thread runs;
    \* after an error the previous schedule continues to run
    /\ live_nodes' = IF cg_result'.kind = "Ok"
                     THEN {t.node : t \in {x \in Range(tasks) : x.kind \in DelayTaskKinds}}
                     ELSE live_nodes
    /\ UNCHANGED <<abstract_schedule, tasks, prev_compile, num_compiles, hvars>>

compile_finish == finish_schedule /\ UNCHANGED ref_compile

CompilerNext == compile_begin \/ compile_entry \/ compile_finish

\* The cache without the `active` flags, which every compile resets first.
CacheNodes(cache) == {[key |-> n.key, node |-> n.node] : n \in cache}

\* a few entries: two audio delays, a plug-in and a sum the verifier rejects
FewEntries ==
    {DelayEntry(1, 14, "audio", 0, 1), DelayEntry(2, 20, "audio", 0, 1),
     NodeEntry("A", 0, 1), SumEntry(1)}

compile_entry_few == compile_entry_of(FewEntries)

\* compile_finish; the compile that ends may be remembered, with the cache it
\* started from (the cache the compile before it left)
compile_finish_remember ==
    /\ finish_schedule
    /\ \E keep \in BOOLEAN :
         ref_compile' = IF keep
                        THEN [n |-> num_compiles, abs |-> abstract_schedule,
                              tasks |-> tasks,
                              cache |-> CacheNodes(prev_compile.cache)]
                        ELSE ref_compile

RepeatNext == compile_begin \/ compile_entry_few \/ compile_finish_remember


(***************************************************************************)
(*                  PART 2: THE HOST OF ONE PLUG-IN INSTANCE               *)
(*                                                                         *)
(* The main-thread controller is PluginHostMainThread (main_thread.rs),    *)
(* the audio-thread processor is PluginInstanceHostAudioThread             *)
(* (graph/plugin_host.rs). They share the state word C5 (SharedPluginState)*)
(* and the request flags. PluginInstanceHost::schedule_deactivate          *)
(* (graph/plugin_host.rs), which raises the DEACTIVATE request, is modelled*)
(* next to PluginHostMainThread::schedule_deactivate.                      *)
(***************************************************************************)

\* enum PluginState
PluginStates ==
    {"Inactive", "InactiveWithError", "ActiveAndSleeping", "ActiveAndProcessing",
     "ActiveAndWaitingForQuiet", "ActiveWithError", "WaitingToDrop",
     "DroppedAndReadyToDeactivate"}

\* PluginState::is_active
is_active(s) ==
    s \notin {"Inactive", "InactiveWithError", "WaitingToDrop",
              "DroppedAndReadyToDeactivate"}

\* PluginState::is_processing
is_processing(s) == s \in {"ActiveAndProcessing", "ActiveAndWaitingForQuiet"}

\* PluginState::is_sleeping
is_sleeping(s) == s = "ActiveAndSleeping"

\* shared_state.get_active_state(): the controller's view of C5, in which the
\* four active states are one state Active
get_active_state(s) == IF is_active(s) THEN "Active" ELSE s

\* The parameters the plug-in reports at activation: 1 is automatable, 2 is
\* read-only.
ParamIDs == {1, 2}
\* an id the plug-in has not reported
UnknownParam == 3
\* ParamInfo of a reported parameter (min_value, max_value, flags)
ParamInfo(id) ==
    [min_value |-> 1, max_value |-> 2, read_only |-> id = 2,
     is_modulatable |-> id = 1]
\* the parameter whose value is set and that the plug-in adjusts
GestureParams == {1}
\* the values a caller passes to set_param_value
Values == {0, 1, 2, 3}
\* the values the plug-in reports in its own ParamValue events
PluginValues == {1, 2}

\* f64::clamp
ClampMutant(v, lo, hi) == v
Clamp(v, lo, hi) == IF v < lo THEN lo ELSE IF v > hi THEN hi ELSE v

\* processors are numbered in the order activate creates them
ProcIDs == 1..MaxProcessors

\* The request flags the plug-in raises for the main thread. on_idle fetches
\* and clears them (host_request_rx.fetch_requests): what it gets is an input
\* of on_idle, the flags raised since the on_idle before.
MainRequests == {"PROCESS", "RESTART", "RESCAN_PORTS"}

\* the ways activate can fail after its pre-check: the first of the five exits
\* before the plug-in's activate is called, and the plug-in's activate itself
ActivateFailures ==
    {"PluginFailedToGetAudioPortsExt", "PluginSpecific"}

\* every exit of activate after its pre-check: the ports, the parameters, the
\* error of sync_ports_in_graph, the plug-in's activate
AllActivateFailures ==
    {"PluginFailedToGetAudioPortsExt", "PluginFailedToGetNotePortsExt",
     "PluginFailedToGetParamInfo", "PluginFailedToGetParamValue",
     "SyncPortsError", "PluginSpecific"}

NoProcessor ==
    [status |-> "none", started |-> FALSE, handshake |-> "none",
     is_adjusting_parameter |-> [i \in ParamIDs |-> FALSE],
     to_proc_param_value |-> {}, to_proc_param_mod |-> {},
     from_proc_param_value |-> {},
     start_failed |-> FALSE]    \* history: start_processing has failed

NoLast ==
    [op |-> "none", state |-> "none", request_flags |-> {}, res |-> "none",
     err |-> "none",
     activate |-> "not_called", deactivated |-> FALSE,
     state_at_deactivate |-> "none",
     modified |-> {}, gesture |-> <<>>, to_drop |-> 0, value |-> 0,
     param_id |-> 0, arg |-> 0, stop |-> 0,
     save_state_dirty |-> "unchanged", save_state_active |-> "unchanged"]

NoSets == [n |-> 0, id |-> 0, raw |-> 0]

NoTrack ==
    [sets |-> NoSets, process_since_deactivate |-> 0, gesture |-> <<>>,
     restart |-> "none"]    \* how far a restart the plug-in asked for has come

NoBlock ==
    [proc |-> 0, state |-> "none", deactivate |-> FALSE, process_req |-> FALSE,
     note_in |-> FALSE, in_silent |-> FALSE, drained |-> FALSE,
     start |-> "none", stop |-> 0, process |-> 0, flush |-> 0,
     cleared |-> FALSE, status |-> "none", prev_status |-> "none",
     in_events |-> <<>>, gesture |-> <<>>,
     event_out |-> <<>>, note_out |-> <<>>,
     out_events |-> <<>>, forwarded |-> <<>>,
     event_in |-> <<>>, passed |-> <<>>,
     adjusting |-> [i \in ParamIDs |-> FALSE], pending |-> {},
     left |-> <<>>, peer_ran |-> FALSE, peer_in |-> <<>>,
     sets |-> NoSets,
     wrote |-> "none", owed |-> 0]

\* `state as u32`: the discriminants of PluginState
PluginStateWord(s) ==
    CASE s = "Inactive" -> 0
      [] s = "InactiveWithError" -> 1
      [] s = "ActiveAndSleeping" -> 2
      [] s = "ActiveAndProcessing" -> 3
      [] s = "ActiveAndWaitingForQuiet" -> 4
      [] s = "ActiveWithError" -> 5
      [] s = "WaitingToDrop" -> 6
      [] s = "DroppedAndReadyToDeactivate" -> 7

\* From<u32> for PluginState, what SharedPluginState::get returns for a word
PluginStateFrom(word) ==
    CASE word = 0 -> "Inactive"
      [] word = 1 -> "InactiveWithError"
      [] word = 2 -> "ActiveAndSleeping"
      [] word = 3 -> "ActiveAndProcessing"
      [] word = 4 -> "ActiveAndWaitingForQuiet"
      [] word = 5 -> "ActiveWithError"
      [] word = 6 -> "WaitingToDrop"
      [] word = 7 -> "DroppedAndReadyToDeactivate"
      [] OTHER -> "InactiveWithError"

\* SharedPluginState::new: the word of a new shared state
SharedPluginStateNew == 0

\* PluginInstanceHost::new: `state` is the word the function allocates first
\* and sets when there is no main-thread plug-in; the field `state` of the
\* struct it returns is initialised with another SharedPluginState::new().
PluginInstanceHost_new(main_thread) ==
    LET state == IF ~main_thread
                 THEN PluginStateWord("InactiveWithError")
                 ELSE SharedPluginStateNew
    IN [main_thread |-> main_thread,
        state |-> SharedPluginStateNew,
        remove_requested |-> FALSE]

\* the host as its constructor leaves it; `op` is what `last` records
InitHostWith(host, op) ==
    /\ plugin_state = PluginStateFrom(host.state)
    /\ host_request = {}
    /\ mt = [remove_requested |-> host.remove_requested, restarting |-> FALSE,
             params |-> {}, gesturing_params |-> [i \in ParamIDs |-> FALSE],
             audio_thread |-> 0, param_queues |-> 0,
             main_thread |-> host.main_thread]
    /\ procs = [p \in ProcIDs |-> NoProcessor]
    /\ engine = [schedule |-> 0, pending |-> FALSE, pending_proc |-> 0,
                 removed |-> FALSE]
    /\ audio = [pc |-> "idle", proc |-> 0, state |-> "none", flags |-> {},
                buffer |-> <<>>]
    /\ plug_active = FALSE
    /\ last = [NoLast EXCEPT !.op = op]
    /\ blk = NoBlock
    /\ track = NoTrack

\* a host whose plug-in was loaded
InitHost ==
    InitHostWith([main_thread |-> TRUE, state |-> SharedPluginStateNew,
                  remove_requested |-> FALSE], "none")

\* a host made by PluginInstanceHost::new, with or without a plug-in
InitNew ==
    /\ InitCompiler
    /\ \E main_thread \in BOOLEAN :
         InitHostWith(PluginInstanceHost_new(main_thread), "new")

\* The host state as one record, so that an operation can call another.
World ==
    [st |-> plugin_state, hr |-> host_request, mt |-> mt,
     procs |-> procs, eng |-> engine, plug_active |-> plug_active, last |-> last,
     track |-> track]

SetWorld(w) ==
    /\ plugin_state' = w.st
    /\ host_request' = w.hr
    /\ mt' = w.mt
    /\ procs' = w.procs
    /\ engine' = w.eng
    /\ plug_active' = w.plug_active
    /\ last' = w.last
    /\ track' = w.track

NumProcessors(w) == Cardinality({p \in ProcIDs : w.procs[p].status # "none"})

(***************************************************************************)
(* Reducing queues (utils::reducing_queue): a keyed slot per parameter,    *)
(* a second set of a pending key merges into the slot with `update`.       *)
(***************************************************************************)

\* ReducFnvValue::update of MainToProcParamValue (the default): overwrite
MainToProcUpdate(old, new) == new

AudioToMainUpdateClobberMutant(old, new) == new

\* AudioToMainParamValue::update
AudioToMainUpdateMutant(old, new) ==
    [old EXCEPT !.value = IF new.value # <<>> THEN new.value ELSE @,
                !.gesture = IF old.gesture # <<>> THEN @ ELSE new.gesture]
AudioToMainUpdate(old, new) ==
    [old EXCEPT !.value = IF new.value # <<>> THEN new.value ELSE @,
                !.gesture = IF new.gesture # <<>> THEN new.gesture ELSE @]

\* ReducFnvProducer::set on a main -> processor queue
QueueSet(q, new) ==
    IF \E e \in q : e.id = new.id
    THEN {IF e.id = new.id THEN MainToProcUpdate(e, new) ELSE e : e \in q}
    ELSE q \cup {new}

\* set_or_update on the processor -> main queue
QueueSetOrUpdate(q, new) ==
    IF \E e \in q : e.id = new.id
    THEN {IF e.id = new.id THEN AudioToMainUpdate(e, new) ELSE e : e \in q}
    ELSE q \cup {new}

(***************************************************************************)
(* The main-thread controller.                                             *)
(***************************************************************************)

\* PluginHostMainThread::can_activate
can_activate(w) == get_active_state(w.st) # "Active"

\* channel.new_processor: the processor and its queues, as
\* PluginInstanceHost::activate builds them
new_processor(w) ==
    LET p == NumProcessors(w) + 1
    IN [w EXCEPT !.hr = (@ \ {"DEACTIVATE"}) \cup {"PROCESS"},
                 !.procs[p] = [NoProcessor EXCEPT !.status = "live"],
                 !.mt.audio_thread = p,
                 !.mt.param_queues = p,
                 !.track = [NoTrack EXCEPT !.restart = w.track.restart]]

\* the closure set_inactive_with_error of activate
set_inactive_with_errorMutant(w) == [w EXCEPT !.st = "InactiveWithError"]
set_inactive_with_error(w) ==
    [w EXCEPT !.st = "InactiveWithError", !.mt.param_queues = 0]

\* PluginHostMainThread::activate; `fail` is "none" or the step that fails
activate(w, fail) ==
    IF ~can_activate(w)
    THEN [w EXCEPT !.last.activate = "AlreadyActive"]
    ELSE IF fail # "none"
    THEN [set_inactive_with_error(w) EXCEPT
              !.track = [NoTrack EXCEPT !.restart = w.track.restart],
                                            !.last.activate = fail]
    ELSE LET w1 == [w EXCEPT !.mt.params = ParamIDs,
                             !.st = "ActiveAndSleeping",
                             !.plug_active = TRUE,
                             !.last.save_state_active = "true",
                             !.last.save_state_dirty = "true",
                             !.last.activate = "Ok"]
         IN new_processor(w1)

\* PluginInstanceHost::schedule_deactivate
schedule_deactivate(w) ==
    IF ~is_active(w.st)
    THEN w
    ELSE [w EXCEPT !.mt.audio_thread = 0,
                   !.hr = @ \cup {"DEACTIVATE"},
                   !.track.process_since_deactivate =
                        IF "DEACTIVATE" \in w.hr THEN @ ELSE 0,
                   !.procs = IF w.mt.audio_thread = 0 THEN @
                             ELSE [@ EXCEPT ![w.mt.audio_thread].handshake =
                                                "requested"]]

\* PluginHostMainThread::schedule_deactivate: the controller's pointer to the
\* processor is handed out to be dropped
mt_schedule_deactivate(w) ==
    IF get_active_state(w.st) # "Active"
    THEN [w EXCEPT !.last.to_drop = 0]
    ELSE [w EXCEPT !.last.to_drop = w.mt.audio_thread,
                   !.mt.audio_thread = 0,
                   !.procs = IF w.mt.audio_thread = 0 THEN @
                             ELSE [@ EXCEPT ![w.mt.audio_thread].handshake =
                                                "waiting"],
                   !.st = "WaitingToDrop"]

\* on_idle, line 725: the plug-in asks for a restart or a rescan of its ports
restart_requestedMutant(request_flags) == "RESTART" \in request_flags
restart_requested(request_flags) ==
    request_flags \cap {"RESTART", "RESCAN_PORTS"} # {}

\* on_idle, line 810: the plug-in is activated again after its deactivation
wants_reactivationMutant(restarting, request_flags) == restarting
wants_reactivation(restarting, request_flags) ==
    restarting \/ "PROCESS" \in request_flags

\* PluginHostMainThread::schedule_remove
schedule_removeMutant(w) == mt_schedule_deactivate(w)
schedule_remove(w) ==
    mt_schedule_deactivate([w EXCEPT !.mt.remove_requested = TRUE])

\* on_idle, lines 699-723: the processor -> main queue is consumed
poll_param_updates(w) ==
    IF w.mt.param_queues = 0
    THEN w
    ELSE LET q == w.procs[w.mt.param_queues].from_proc_param_value
             Gesturing(e) == IF e.gesture # <<>> THEN e.gesture[1]
                             ELSE w.mt.gesturing_params[e.id]
         IN [w EXCEPT
               !.procs[w.mt.param_queues].from_proc_param_value = {},
               !.last.gesture = w.track.gesture,
               !.track.gesture = <<>>,
               !.mt.gesturing_params =
                    [i \in ParamIDs |->
                        IF \E e \in q : e.id = i
                        THEN Gesturing(CHOOSE e \in q : e.id = i)
                        ELSE @[i]],
               !.last.save_state_dirty =
                    IF \E e \in q : e.gesture = <<>> \/ e.gesture = <<FALSE>>
                    THEN "true" ELSE @,
               !.last.modified =
                    {[param_id |-> e.id, new_value |-> e.value,
                      is_gesturing |-> Gesturing(e)] : e \in q}]

\* PluginHostMainThread::on_idle; `fail` is the outcome of the activate it may
\* call
process_wantedMutant(request_flags, remove_requested, restarting) ==
    "PROCESS" \in request_flags

\* the plug-in requested processing and the controller is neither being
\* removed nor restarting
process_wanted(request_flags, remove_requested, restarting) ==
    /\ "PROCESS" \in request_flags
    /\ ~remove_requested
    /\ ~restarting

on_idle(w, request_flags, fail) ==
    LET active_state0 == get_active_state(w.st)
        w0 == [w EXCEPT !.last = [NoLast EXCEPT !.op = "on_idle", !.state = w.st,
                                               !.request_flags = request_flags]]
        w1 == poll_param_updates(w0)
        restart == restart_requested(request_flags)
        w2 == IF restart
              THEN mt_schedule_deactivate([w1 EXCEPT !.mt.restarting = TRUE])
              ELSE w1
        active_state == IF restart /\ active_state0 = "Active"
                        THEN "WaitingToDrop" ELSE active_state0
        Activated(wa) == IF wa.last.activate = "Ok"
                         THEN [wa EXCEPT !.last.save_state_dirty = "true",
                                         !.last.res = "PluginActivated"]
                         ELSE [wa EXCEPT !.last.res = "PluginFailedToActivate"]
    IN IF active_state = "DroppedAndReadyToDeactivate"
       THEN LET w3 == [w2 EXCEPT !.plug_active = FALSE,
                                 !.last.deactivated = TRUE,
                                 !.last.state_at_deactivate = w2.st,
                                 !.st = "Inactive"]
            IN IF ~w3.mt.remove_requested
               THEN IF wants_reactivation(w3.mt.restarting, request_flags)
                    THEN Activated(activate(w3, fail))
                    ELSE [w3 EXCEPT !.last.save_state_active = "false",
                                    !.last.save_state_dirty = "true",
                                    !.last.res = "PluginDeactivated"]
               ELSE [w3 EXCEPT !.last.res = "PluginReadyToRemove"]
       ELSE IF process_wanted(request_flags, w2.mt.remove_requested,
                              w2.mt.restarting)
       THEN IF active_state = "Active"
            THEN \* shared_state.set_process_requested()
                 [w2 EXCEPT !.hr = @ \cup {"PROCESS"}, !.last.res = "Ok"]
            ELSE IF active_state \in {"Inactive", "InactiveWithError"}
            THEN Activated(activate(w2, fail))
            ELSE [w2 EXCEPT !.last.res = "Ok"]
       ELSE [w2 EXCEPT !.last.res = "Ok"]

\* PluginHostMainThread::set_param_value
set_param_value(w, param_id, value) ==
    LET w0 == [w EXCEPT !.last = [NoLast EXCEPT !.op = "set_param_value",
                                               !.state = w.st,
                                               !.param_id = param_id,
                                               !.arg = value]]
    IN IF param_id \notin w.mt.params
       THEN [w0 EXCEPT !.last.err = "ParamDoesNotExist"]
       ELSE IF ParamInfo(param_id).read_only
       THEN [w0 EXCEPT !.last.err = "ParamIsReadOnly"]
       ELSE LET v == Clamp(value, ParamInfo(param_id).min_value,
                           ParamInfo(param_id).max_value)
                q == w.mt.param_queues
            IN [w0 EXCEPT
                  !.procs = IF q = 0 THEN @
                            ELSE [@ EXCEPT ![q].to_proc_param_value =
                                     QueueSet(@, [id |-> param_id, value |-> v])],
                  !.track.sets = IF q = 0 THEN @
                                 ELSE [n |-> IF @.id # param_id THEN 1
                                             ELSE IF @.n < 2 THEN @.n + 1 ELSE 2,
                                       id |-> param_id,
                                       raw |-> value],
                  !.last.save_state_dirty = "true",
                  !.last.res = "Ok",
                  !.last.value = v]


(***************************************************************************)
(* The audio-thread processor: PluginInstanceHostAudioThread::process.     *)
(***************************************************************************)

\* the events the plug-in writes to out_events in one process call
OutEventKinds ==
    {[type |-> "ParamGestureBegin", id |-> i, value |-> 0] : i \in GestureParams}
    \cup {[type |-> "ParamGestureEnd", id |-> i, value |-> 0] : i \in GestureParams}
    \cup {[type |-> "ParamValue", id |-> i, value |-> v] :
              i \in GestureParams, v \in PluginValues}

\* every sequence shorter than MaxOutEvents, and the gestures (begin, values,
\* end) of MaxOutEvents events
OutEventSeqs ==
    UNION {[1..n -> OutEventKinds] : n \in 0..(MaxOutEvents - 1)}
    \cup {out \in [1..MaxOutEvents -> OutEventKinds] :
            /\ out[1].type = "ParamGestureBegin"
            /\ out[MaxOutEvents].type = "ParamGestureEnd"
            /\ \A i \in 2..(MaxOutEvents - 1) : out[i].type = "ParamValue"}

ProcessStatuses == {"Continue", "ContinueIfNotQuiet", "Tail", "Sleep", "Error"}

\* What one block reads from its buffers and what the plug-in answers. An
\* input the block does not read has one value: the note-in buffers are read
\* by the quiet rule and the sleep rule, the silence of the inputs by the quiet
\* rule, start_processing is called on a sleeping plug-in, the silence of the
\* outputs is read after Tail.
NoInput ==
    [note_in |-> FALSE, in_silent |-> FALSE, start_ok |-> TRUE,
     status |-> "Continue", out_silent |-> FALSE, out_events |-> <<>>,
     event_in |-> <<>>]

Answers(statuses, outs) ==
    {[NoInput EXCEPT !.status = st, !.out_events = out] :
        st \in statuses, out \in outs}
    \cup {[NoInput EXCEPT !.status = "Tail", !.out_silent = TRUE, !.out_events = out] :
        out \in IF "Tail" \in statuses THEN outs ELSE {}}

BlockInputs(state, flags, statuses, outs) ==
    IF "DEACTIVATE" \in flags /\ state = "ActiveAndWaitingForQuiet"
    THEN {NoInput, [NoInput EXCEPT !.in_silent = TRUE]}
    ELSE IF "DEACTIVATE" \in flags \/ state = "ActiveWithError"
    THEN {NoInput}
    ELSE IF state = "ActiveAndWaitingForQuiet"
    THEN {[NoInput EXCEPT !.in_silent = TRUE]}
         \cup {[i EXCEPT !.note_in = n, !.in_silent = s] :
                  i \in Answers(statuses, outs), n \in BOOLEAN, s \in BOOLEAN}
    ELSE IF is_sleeping(state)
    THEN {NoInput, [NoInput EXCEPT !.note_in = TRUE, !.start_ok = FALSE]}
         \cup {[i EXCEPT !.note_in = n] : i \in Answers(statuses, outs), n \in BOOLEAN}
    ELSE Answers(statuses, outs)

\* process, line 722: do we want to deactivate the plug-in?
deactivate_requestedMutant(request_flags) == FALSE
deactivate_requested(request_flags) == "DEACTIVATE" \in request_flags

\* process, lines 846-853: the plug-in waits for quiet, there is no note-in
\* event and the audio inputs are silent
inputs_quietMutant(state, has_note_in_event, audio_inputs_silent) == FALSE
inputs_quiet(state, has_note_in_event, audio_inputs_silent) ==
    /\ state = "ActiveAndWaitingForQuiet"
    /\ ~has_note_in_event
    /\ audio_inputs_silent

\* process, lines 867-868: the plug-in sleeps and nothing wakes it up
stays_asleepMutant(state, request_flags, has_note_in_event) == FALSE

stays_asleepDeafMutant(state, request_flags, has_note_in_event) ==
    is_sleeping(state) /\ "PROCESS" \notin request_flags
stays_asleep(state, request_flags, has_note_in_event) ==
    /\ is_sleeping(state)
    /\ "PROCESS" \notin request_flags
    /\ ~has_note_in_event

\* process, lines 745-788: one event per entry of a main -> processor queue
RECURSIVE consume_events(_, _)
consume_eventsMutant(q, type) == <<>>
consume_events(q, type) ==
    IF q = {}
    THEN <<>>
    ELSE LET e == CHOOSE x \in q : \A y \in q : x.id <= y.id
         IN <<[type |-> type, id |-> e.id, value |-> e.value]>>
            \o consume_events(q \ {e}, type)

\* process, lines 914-1111: the plug-in's out_events are routed, the parameter
\* events to the processor -> main queue; r is [adj, queue]
IsGestureMarker(e) == e.type \in {"ParamGestureBegin", "ParamGestureEnd"}

forward_gestureMutant(is_adjusting, is_begin) == TRUE

\* process, lines 922-965: a gesture-begin passes when the parameter is not
\* being adjusted, a gesture-end when it is
forward_gesture(is_adjusting, is_begin) == is_adjusting # is_begin

\* r.fwd collects the gesture markers that were put into the queue
RECURSIVE route_out_events(_, _)
route_out_events(out, r) ==
    IF out = <<>>
    THEN r
    ELSE LET e == Head(out)
             is_begin == e.type = "ParamGestureBegin"
             r1 == CASE IsGestureMarker(e) ->
                          IF ~forward_gesture(r.adj[e.id], is_begin)
                          THEN r
                          ELSE [adj |-> [r.adj EXCEPT ![e.id] = is_begin],
                                queue |-> QueueSetOrUpdate(r.queue,
                                    [id |-> e.id, value |-> <<>>,
                                     gesture |-> <<is_begin>>]),
                                fwd |-> Append(r.fwd, e)]
                       [] e.type = "ParamValue" ->
                          [r EXCEPT !.queue = QueueSetOrUpdate(r.queue,
                                    [id |-> e.id, value |-> <<e.value>>,
                                     gesture |-> <<>>])]
                       [] OTHER -> r
         IN route_out_events(Tail(out), r1)

IsEventOut(e) == e.type \in {"ParamMod", "Transport"}

IsNoteOut(e) == e.type \in {"NoteOn", "NoteOff"}

\* process, lines 977-1036: the out events pushed to the event-out buffer and
\* to the note-out buffer of a plug-in that has both ports
push_to_out_buffers(out) ==
    [event_out |-> SelectSeq(out, IsEventOut),
     note_out |-> SelectSeq(out, IsNoteOut)]

\* process, lines 1115-1147: what the returned status does to C5; `wrote` is the
\* last value written to C5, "none" when C5 is left alone
status_result(status, state, audio_outputs_silent) ==
    CASE status = "Continue" ->
           [wrote |-> IF state # "ActiveAndProcessing"
                      THEN "ActiveAndProcessing" ELSE "none",
            stop |-> FALSE, cleared |-> FALSE]
      [] status = "ContinueIfNotQuiet" ->
           [wrote |-> IF state # "ActiveAndWaitingForQuiet"
                      THEN "ActiveAndWaitingForQuiet" ELSE "none",
            stop |-> FALSE, cleared |-> FALSE]
      [] status = "Tail" ->
           [wrote |-> IF audio_outputs_silent THEN "ActiveAndSleeping"
                      ELSE IF state # "ActiveAndProcessing"
                      THEN "ActiveAndProcessing" ELSE "none",
            stop |-> audio_outputs_silent, cleared |-> FALSE]
      [] status = "Sleep" ->
           [wrote |-> "ActiveAndSleeping", stop |-> TRUE, cleared |-> FALSE]
      [] OTHER ->
           [wrote |-> "none", stop |-> FALSE, cleared |-> TRUE]

\* a gesture-begin, values, gesture-end sequence of one parameter
IsGestureSeq(out) ==
    /\ Len(out) >= 3
    /\ out[1].type = "ParamGestureBegin"
    /\ out[Len(out)].type = "ParamGestureEnd"
    /\ \A i \in 2..(Len(out) - 1) : out[i].type = "ParamValue"
    /\ \A i \in 1..Len(out) : out[i].id = out[1].id

\* the last value of a gesture, nothing for any other sequence
gesture_of(out) ==
    IF IsGestureSeq(out) THEN <<out[Len(out) - 1].value>> ELSE <<>>

Write(w, value) == IF value = "none" THEN w ELSE [w EXCEPT !.st = value]

\* node_ref of this plug-in, of another plug-in, and no target
SelfNode == 1
OtherNode == 2
NoTarget == 0

do_addMutant(event) == event.type = "Transport"

\* process, lines 823-833: which events of an event-in buffer the processor
\* of the plug-in node_ref takes
do_add_of(event, node_ref) ==
    \/ event.type \in {"ParamValue", "ParamMod"} /\ event.target = node_ref
    \/ event.type = "Transport"

do_add(event) == do_add_of(event, SelfNode)

\* process, line 822: what `b.drain(..)` leaves in the buffer
drain(buffer) == <<>>

\* event.as_unknown(): the event without its target
RECURSIVE as_unknown(_)
as_unknown(events) ==
    IF events = <<>>
    THEN <<>>
    ELSE <<[type |-> Head(events).type, id |-> Head(events).id,
            value |-> Head(events).value]>> \o as_unknown(Tail(events))

param_flush_callsMutant(has_param_in_event) == 0

\* param_flush is called on the paths that do not call process, and only
\* when the block collected a parameter event
param_flush_calls(has_param_in_event) == IF has_param_in_event THEN 1 ELSE 0

\* The block of processor a.proc from line 722 on; a holds what lines 699-719
\* have read. The result is [w, b]: the host state and the record of the block.
process(w, a, inp, b0) ==
    LET p == a.proc
        b1 == [b0 EXCEPT !.note_in = inp.note_in, !.in_silent = inp.in_silent,
                         !.event_in = inp.event_in, !.left = inp.event_in]
    IN
    IF deactivate_requested(a.flags)
    THEN [w |-> [w EXCEPT !.st = "WaitingToDrop",
                          !.procs[p].handshake =
                               IF @ = "requested" THEN "waiting" ELSE @,
                          !.procs[p].started =
                               IF is_processing(a.state) THEN FALSE ELSE @],
          b |-> [b1 EXCEPT !.stop = IF is_processing(a.state) THEN 1 ELSE 0,
                           !.wrote = "WaitingToDrop",
                           !.cleared = TRUE]]
    ELSE IF a.state = "ActiveWithError"
    THEN [w |-> w, b |-> [b1 EXCEPT !.cleared = TRUE]]
    ELSE
    LET queued == consume_events(w.procs[p].to_proc_param_value, "ParamValue")
                  \o consume_events(w.procs[p].to_proc_param_mod, "ParamMod")
        routed_in == SelectSeq(inp.event_in, do_add)
        in_events == queued \o as_unknown(routed_in)
        has_param_in_event ==
            \/ queued # <<>>
            \/ \E i \in 1..Len(routed_in) : routed_in[i].type # "Transport"
        mine == p = w.mt.param_queues
        w1 == [w EXCEPT !.procs[p].to_proc_param_value = {},
                        !.procs[p].to_proc_param_mod = {},
                        !.track.sets = IF mine THEN NoSets ELSE @]
        b2 == [b1 EXCEPT !.drained = TRUE,
                         !.left = drain(inp.event_in),
                         !.in_events = in_events,
                         !.sets = IF mine THEN w.track.sets ELSE @]
        flush == param_flush_calls(has_param_in_event)
        flushed == IF flush = 1 THEN in_events ELSE <<>>
    IN
    IF inputs_quiet(a.state, inp.note_in, inp.in_silent)
    THEN [w |-> [w1 EXCEPT !.st = "ActiveAndSleeping",
                           !.procs[p].started = FALSE],
          b |-> [b2 EXCEPT !.stop = 1, !.wrote = "ActiveAndSleeping",
                           !.cleared = TRUE, !.flush = flush,
                           !.passed = flushed]]
    ELSE IF stays_asleep(a.state, a.flags, inp.note_in)
    THEN [w |-> w1, b |-> [b2 EXCEPT !.cleared = TRUE, !.flush = flush,
                                     !.passed = flushed]]
    ELSE IF is_sleeping(a.state) /\ ~inp.start_ok
    THEN [w |-> [w1 EXCEPT !.hr = @ \ {"PROCESS"}, !.st = "ActiveWithError",
                           !.procs[p].start_failed = TRUE],
          b |-> [b2 EXCEPT !.start = "failed", !.wrote = "ActiveWithError",
                           !.cleared = TRUE, !.flush = flush,
                           !.passed = flushed]]
    ELSE
    LET woken == is_sleeping(a.state)
        state == IF woken THEN "ActiveAndProcessing" ELSE a.state
        w2 == IF woken
              THEN [w1 EXCEPT !.hr = @ \ {"PROCESS"}, !.st = "ActiveAndProcessing",
                              !.procs[p].started = TRUE]
              ELSE w1
        routed == route_out_events(inp.out_events,
                      [adj |-> w2.procs[p].is_adjusting_parameter,
                       queue |-> w2.procs[p].from_proc_param_value,
                       fwd |-> <<>>])
        sr == status_result(inp.status, state, inp.out_silent)
        w3 == [w2 EXCEPT
                 !.procs[p].is_adjusting_parameter = routed.adj,
                 !.procs[p].from_proc_param_value = routed.queue,
                 !.procs[p].started = IF sr.stop THEN FALSE ELSE @,
                 !.track.gesture =
                      IF ~mine \/ inp.out_events = <<>> THEN @
                      ELSE gesture_of(inp.out_events),
                 !.track.process_since_deactivate =
                      IF "DEACTIVATE" \in w2.hr /\ @ < 2 THEN @ + 1 ELSE @]
    IN [w |-> Write(w3, sr.wrote),
        b |-> [b2 EXCEPT !.start = IF woken THEN "ok" ELSE "none",
                         !.process = 1,
                         !.passed = in_events,
                         !.status = inp.status,
                         !.stop = IF sr.stop THEN 1 ELSE 0,
                         !.cleared = sr.cleared,
                         !.wrote = IF sr.wrote # "none" THEN sr.wrote
                                   ELSE IF woken THEN "ActiveAndProcessing"
                                   ELSE "none",
                         !.gesture = gesture_of(inp.out_events),
                         !.out_events = inp.out_events,
                         !.forwarded = routed.fwd,
                         !.adjusting = w2.procs[p].is_adjusting_parameter,
                         !.pending = w2.procs[p].from_proc_param_value,
                         !.event_out = push_to_out_buffers(inp.out_events).event_out,
                         !.note_out = push_to_out_buffers(inp.out_events).note_out]]


(***************************************************************************)
(* The steps of the host.                                                  *)
(***************************************************************************)

\* the engine keeps the controller until on_idle has answered
\* PluginReadyToRemove
HostExists == ~engine.removed

\* what is kept of a block once another step has been taken: the processor,
\* the status process returned, the bookkeeping of the quiet rule
Forget(b) == [NoBlock EXCEPT !.proc = b.proc, !.status = b.status, !.owed = b.owed]

\* the outcomes of an activation the bound MaxProcessors leaves room for
ActivateOutcomesOf(failures) ==
    IF NumProcessors(World) < MaxProcessors
    THEN {"none"} \cup failures
    ELSE failures

ActivateOutcomes == ActivateOutcomesOf(ActivateFailures)

MainStep(w) ==
    /\ SetWorld([w EXCEPT !.eng.removed = w.last.res = "PluginReadyToRemove"])
    /\ blk' = Forget(blk)
    /\ UNCHANGED <<audio, cvars>>

ActivateWith(failures) ==
    /\ HostExists
    /\ \E fail \in ActivateOutcomesOf(failures) :
         LET w == activate([World EXCEPT !.last = [NoLast EXCEPT !.op = "activate", !.state = plugin_state]],
                           fail)
         IN MainStep([w EXCEPT !.last.res =
                          IF w.last.activate = "Ok" THEN "Ok" ELSE "Err"])

Activate == ActivateWith(ActivateFailures)

\* activate with every way to fail
ActivateAnyFailure == ActivateWith(AllActivateFailures)

RequestDeactivate ==
    /\ HostExists
    /\ MainStep(schedule_deactivate(
           [World EXCEPT !.last = [NoLast EXCEPT !.op = "request_deactivate", !.state = plugin_state]]))

ScheduleDeactivate ==
    /\ HostExists
    /\ MainStep(mt_schedule_deactivate(
           [World EXCEPT !.last = [NoLast EXCEPT !.op = "schedule_deactivate", !.state = plugin_state]]))

ScheduleRemove ==
    /\ HostExists
    /\ MainStep(schedule_remove(
           [World EXCEPT !.last = [NoLast EXCEPT !.op = "schedule_remove", !.state = plugin_state]]))

\* an idle tick that has fetched one of `requests`
OnIdleOf(requests, failures) ==
    /\ HostExists
    /\ \E request_flags \in requests, fail \in ActivateOutcomesOf(failures) :
         MainStep(on_idle(World, request_flags, fail))

OnIdleWith(requests) == OnIdleOf(requests, ActivateFailures)

\* an idle tick whose activate fails in every way
OnIdleAnyFailure == OnIdleOf({{}, {"PROCESS"}}, AllActivateFailures)

\* an idle tick of a plug-in that asks for processing at most
OnIdle == OnIdleWith({{}, {"PROCESS"}})

\* an idle tick of a plug-in that asks for anything
OnIdleAnyRequest == OnIdleWith(SUBSET MainRequests)

\* on_idle, lines 725-749 and 799-826: a restart is pending from the on_idle
\* that fetched RESTART or RESCAN_PORTS, and done once an on_idle has
\* deactivated the plug-in and called activate again; `w` is what on_idle
\* returned
restart_progress(before, request_flags, w) ==
    LET pending == restart_requested(request_flags) \/ before = "pending"
    IN IF pending /\ w.last.deactivated /\ w.last.activate = "Ok"
       THEN "done"
       ELSE IF pending THEN "pending" ELSE before

\* an idle tick of a plug-in that asks for anything; the progress of its
\* restart is remembered
OnIdleRestart ==
    /\ HostExists
    /\ \E request_flags \in SUBSET MainRequests,
          fail \in ActivateOutcomesOf(ActivateFailures) :
         LET w == on_idle(World, request_flags, fail)
         IN MainStep([w EXCEPT !.track.restart =
                          restart_progress(track.restart, request_flags, w)])

\* PluginHostMainThread::set_param_mod_amount
set_param_mod_amount(w, param_id, mod_amount) ==
    LET w0 == [w EXCEPT !.last = [NoLast EXCEPT !.op = "set_param_mod_amount",
                                               !.state = w.st,
                                               !.param_id = param_id,
                                               !.arg = mod_amount]]
    IN IF param_id \notin w.mt.params
       THEN [w0 EXCEPT !.last.err = "ParamDoesNotExist"]
       ELSE IF ParamInfo(param_id).is_modulatable
       THEN [w0 EXCEPT !.last.err = "ParamIsNotModulatable"]
       ELSE LET q == w.mt.param_queues
            IN [w0 EXCEPT
                  !.procs = IF q = 0 THEN @
                            ELSE [@ EXCEPT ![q].to_proc_param_mod =
                                     QueueSet(@, [id |-> param_id,
                                                  value |-> mod_amount])],
                  !.last.res = "Ok",
                  !.last.value = mod_amount]

SetParamModAmount ==
    /\ HostExists
    /\ \E param_id \in ParamIDs \cup {UnknownParam}, mod_amount \in Values :
         MainStep(set_param_mod_amount(World, param_id, mod_amount))

SetParamValueOf(ids, values) ==
    /\ HostExists
    /\ \E param_id \in ids, value \in values :
         MainStep(set_param_value(World, param_id, value))

SetParamValue == SetParamValueOf(ParamIDs \cup {UnknownParam}, Values)

SetOneParamValue == SetParamValueOf({1}, {1})

\* The engine compiles a schedule that holds the processor the controller has
\* now and publishes it.
PublishSchedule ==
    /\ ~engine.pending
    /\ mt.audio_thread # engine.schedule
    /\ engine' = [engine EXCEPT !.pending = TRUE,
                                !.pending_proc = mt.audio_thread]
    /\ last' = NoLast
    /\ blk' = Forget(blk)
    /\ UNCHANGED <<plugin_state, host_request, mt, procs, audio,
                   plug_active, track, cvars>>

\* The audio thread takes the published schedule between two blocks; the
\* schedule it ran before is released.
SwapSchedule ==
    /\ audio.pc = "idle"
    /\ engine.pending
    /\ engine' = [engine EXCEPT !.schedule = engine.pending_proc,
                                !.pending = FALSE,
                                !.pending_proc = 0]
    /\ last' = NoLast
    /\ blk' = Forget(blk)
    /\ UNCHANGED <<plugin_state, host_request, mt, procs, audio,
                   plug_active, track, cvars>>

Referenced(p) ==
    \/ p = mt.audio_thread
    \/ p = engine.schedule
    \/ engine.pending /\ p = engine.pending_proc
    \/ audio.pc = "run" /\ audio.proc = p

\* Drop for PluginInstanceHostAudioThread, run by the collector once nothing
\* refers to the processor
dropMutant(w, p) ==
    [w EXCEPT !.procs[p].status = "dropped",
              !.procs[p].handshake = CASE @ = "requested" -> "skipped"
                                       [] @ = "waiting" -> "dropped"
                                       [] OTHER -> @]
stops_on_dropMutant(state) == is_active(state)

\* Drop, line 1157: stop_processing is called when C5 is a processing state
stops_on_drop(state) == is_processing(state)

drop(w, p) ==
    [w EXCEPT !.procs[p].status = "dropped",
              !.procs[p].started = IF stops_on_drop(w.st) THEN FALSE ELSE @,
              !.last.stop = IF stops_on_drop(w.st) THEN 1 ELSE 0,
              !.procs[p].handshake = CASE @ = "requested" -> "skipped"
                                       [] @ = "waiting" -> "dropped"
                                       [] OTHER -> @,
              !.st = "DroppedAndReadyToDeactivate"]

DropProcessor ==
    \E p \in ProcIDs :
      /\ procs[p].status = "live"
      /\ ~Referenced(p)
      /\ SetWorld(drop([World EXCEPT !.last = [NoLast EXCEPT !.op = "drop",
                                                              !.state = plugin_state]],
                       p))
      /\ blk' = Forget(blk)
      /\ UNCHANGED <<audio, cvars>>

\* the bookkeeping of a finished block for the quiet rule: 1 when a silent
\* block after ContinueIfNotQuiet did not put the plug-in to sleep, 2 when the
\* block after that one did not either
Owed(b, prev) ==
    LET done == b.stop = 1 /\ b.wrote = "ActiveAndSleeping"
        excused == b.deactivate \/ ~is_active(b.state)
    IN IF prev.proc = b.proc /\ prev.owed = 1
       THEN IF done \/ excused THEN 0 ELSE 2
       ELSE IF b.prev_status = "ContinueIfNotQuiet" /\ b.in_silent
               /\ ~excused /\ ~done
       THEN 1 ELSE 0

BlockOf(p, state, flags) ==
    [NoBlock EXCEPT !.proc = p,
                    !.state = state,
                    !.deactivate = "DEACTIVATE" \in flags,
                    !.process_req = "PROCESS" \in flags,
                    !.prev_status = IF blk.proc = p THEN blk.status ELSE "none"]

\* process, lines 699-719: the processor in the running schedule starts a
\* block; it reads C5 and, if the plug-in is active, the request flags
inactive_blockMutant(b) == b

\* process, lines 712-717: the block of a plug-in that is not active clears
\* the outputs and returns
inactive_block(b) == [b EXCEPT !.cleared = TRUE]

ProcessBegin ==
    /\ audio.pc = "idle"
    /\ engine.schedule # 0
    /\ IF ~is_active(plugin_state)
       THEN /\ blk' = LET b == inactive_block(
                                   BlockOf(engine.schedule, plugin_state, {}))
                      IN [b EXCEPT !.owed = Owed(b, blk)]
            /\ UNCHANGED audio
       ELSE /\ audio' = [pc |-> "run", proc |-> engine.schedule,
                         state |-> plugin_state, flags |-> host_request,
                         buffer |-> <<>>]
            /\ blk' = Forget(blk)
    /\ last' = NoLast
    /\ UNCHANGED <<plugin_state, host_request, mt, procs, engine,
                   plug_active, track, cvars>>

\* process, lines 722-1152: the rest of the block; the plug-in returns one of
\* `statuses` and writes one of `outs` to out_events
\* one block of the processor in the schedule; `remember` keeps the history
\* of a failed start_processing and of the out events and gesture markers
ProcessRunStep(inputs, remember, fan_out) ==
    /\ audio.pc = "run"
    /\ \E inp \in inputs :
         LET r == process(World, audio, inp,
                          BlockOf(audio.proc, audio.state, audio.flags))
         IN /\ SetWorld([r.w EXCEPT !.last = NoLast,
                                    !.procs[audio.proc].start_failed =
                                         remember /\ @])
            /\ blk' = [r.b EXCEPT
                         !.owed = Owed(r.b, blk),
                         !.out_events = IF remember THEN @ ELSE <<>>,
                         !.forwarded = IF remember THEN @ ELSE <<>>,
                         !.adjusting = IF remember THEN @ ELSE NoBlock.adjusting,
                         !.pending = IF remember THEN @ ELSE {}]
            \* the next task of the schedule finds in the shared buffer what
            \* this one has left
            /\ audio' = IF fan_out
                        THEN [audio EXCEPT !.pc = "peer", !.buffer = r.b.left]
                        ELSE [pc |-> "idle", proc |-> 0, state |-> "none",
                              flags |-> {}, buffer |-> <<>>]
    /\ UNCHANGED cvars

ProcessRunFrom(inputs, remember) == ProcessRunStep(inputs, remember, FALSE)

\* a block of a plug-in that sends no parameter events
ProcessRunOf(statuses, outs, remember) ==
    ProcessRunFrom(BlockInputs(audio.state, audio.flags, statuses, outs),
                   remember)

ProcessRunWith(statuses, outs) == ProcessRunOf(statuses, outs, FALSE)

\* what an event-in buffer holds at the start of a block
EventInKinds ==
    {[type |-> "Transport", id |-> 0, value |-> 0, target |-> NoTarget],
     [type |-> "ParamValue", id |-> 1, value |-> 1, target |-> SelfNode],
     [type |-> "ParamValue", id |-> 1, value |-> 2, target |-> OtherNode],
     [type |-> "ParamMod", id |-> 1, value |-> 1, target |-> NoTarget],
     [type |-> "NoteOn", id |-> 0, value |-> 0, target |-> NoTarget]}

EventInSeqs == UNION {[1..n -> EventInKinds] : n \in 0..MaxEventsIn}

ProcessRunEventIn ==
    ProcessRunFrom(
        {[i EXCEPT !.event_in = ev] :
            i \in BlockInputs(audio.state, audio.flags, {"Continue", "Sleep"}, {<<>>}),
            ev \in EventInSeqs},
        FALSE)

\* a block of a schedule in which the next Plugin task lists the same
\* event-in buffer
ProcessRunFanOut ==
    ProcessRunStep(
        {[i EXCEPT !.event_in = ev] :
            i \in BlockInputs(audio.state, audio.flags, {"Continue", "Sleep"}, {<<>>}),
            ev \in EventInSeqs},
        FALSE, TRUE)

\* process of the next Plugin task, the processor of the plug-in OtherNode,
\* active and past the deactivate and error checks: lines 818-840, it drains
\* the shared event-in buffer and takes the events do_add lets through
PeerTaskRun ==
    /\ audio.pc = "peer"
    /\ blk' = [blk EXCEPT
                 !.peer_ran = TRUE,
                 !.peer_in = as_unknown(SelectSeq(audio.buffer,
                                 LAMBDA e : do_add_of(e, OtherNode))),
                 !.left = drain(audio.buffer)]
    /\ audio' = [pc |-> "idle", proc |-> 0, state |-> "none", flags |-> {},
                 buffer |-> <<>>]
    /\ last' = NoLast
    /\ UNCHANGED <<plugin_state, host_request, mt, procs, engine,
                   plug_active, track, cvars>>

ProcessRunRemember == ProcessRunOf({"Continue"}, {<<>>}, TRUE)

\* out events that go to the output buffers: a note and an automation event
BufferEventSeqs ==
    LET note == [type |-> "NoteOn", id |-> 0, value |-> 0]
        mod == [type |-> "ParamMod", id |-> 1, value |-> 1]
    IN {<<>>, <<note>>, <<mod>>, <<note, mod>>}

ProcessRunOutputs == ProcessRunWith(ProcessStatuses, BufferEventSeqs)

ProcessRunGestures == ProcessRunOf({"Continue"}, OutEventSeqs, TRUE)

\* a block of a plug-in that sends at most one parameter or gesture event
ProcessRunOneEvent ==
    ProcessRunWith({"Continue"},
        {<<>>} \cup {<<e>> : e \in {k \in OutEventKinds : k.value \in {0, 1}}})

\* an activation that does not fail
ActivateOk == ActivateWith({})

\* an idle tick that has fetched no request
OnIdleNoRequest == OnIdleOf({{}}, ActivateFailures)

ProcessRun == ProcessRunWith(ProcessStatuses, {<<>>})

\* a block of a plug-in that sends parameter and gesture events
ProcessRunEvents == ProcessRunWith({"Continue", "Sleep"}, OutEventSeqs)

\* a block of a plug-in that always continues
ProcessRunContinue == ProcessRunWith({"Continue"}, {<<>>})

ProcessRunQuiet == ProcessRunWith({"Continue", "ContinueIfNotQuiet"}, {<<>>})

\* activation with all its failures, deactivation, reactivation
ActivationNext ==
    \/ ActivateAnyFailure
    \/ RequestDeactivate
    \/ OnIdleAnyFailure
    \/ PublishSchedule
    \/ SwapSchedule
    \/ DropProcessor
    \/ ProcessBegin
    \/ ProcessRunContinue

\* the calls that set parameters, on a plug-in that is activated, deactivated
\* and reactivated and whose processor is in no schedule
ControlNext ==
    \/ Activate
    \/ RequestDeactivate
    \/ OnIdle
    \/ SetParamValue
    \/ SetParamModAmount
    \/ DropProcessor

\* restart and removal: the controller hands out its processor, the plug-in
\* asks for anything
RestartNext ==
    \/ Activate
    \/ ScheduleDeactivate
    \/ ScheduleRemove
    \/ OnIdleAnyRequest
    \/ PublishSchedule
    \/ SwapSchedule
    \/ DropProcessor
    \/ ProcessBegin
    \/ ProcessRunContinue

\* deactivation by request, the blocks of the processor, the idle ticks
QuietNext ==
    \/ Activate
    \/ RequestDeactivate
    \/ SetParamValue
    \/ PublishSchedule
    \/ SwapSchedule
    \/ ProcessBegin
    \/ ProcessRunQuiet

ErrorNext ==
    \/ Activate
    \/ RequestDeactivate
    \/ OnIdle
    \/ PublishSchedule
    \/ SwapSchedule
    \/ DropProcessor
    \/ ProcessBegin
    \/ ProcessRunRemember

OutputsNext ==
    \/ Activate
    \/ RequestDeactivate
    \/ PublishSchedule
    \/ SwapSchedule
    \/ ProcessBegin
    \/ ProcessRunOutputs

InactiveNext ==
    \/ Activate
    \/ RequestDeactivate
    \/ SetOneParamValue
    \/ OnIdle
    \/ PublishSchedule
    \/ SwapSchedule
    \/ DropProcessor
    \/ ProcessBegin
    \/ ProcessRunContinue

GesturesNext ==
    \/ Activate
    \/ OnIdle
    \/ PublishSchedule
    \/ SwapSchedule
    \/ ProcessBegin
    \/ ProcessRunGestures

EventInNext ==
    \/ Activate
    \/ RequestDeactivate
    \/ PublishSchedule
    \/ SwapSchedule
    \/ ProcessBegin
    \/ ProcessRunEventIn

\* activate on a host without a main-thread plug-in: can_activate refuses
ActivateNotLoaded ==
    /\ HostExists
    /\ ~mt.main_thread
    /\ MainStep([World EXCEPT !.last = [NoLast EXCEPT !.op = "activate",
                                                      !.state = plugin_state,
                                                      !.activate = "NotLoaded",
                                                      !.res = "Err"]])

\* on_idle on a host without a main-thread plug-in
OnIdleNotLoaded ==
    /\ HostExists
    /\ ~mt.main_thread
    /\ MainStep([World EXCEPT !.last = [NoLast EXCEPT !.op = "on_idle",
                                                      !.state = plugin_state,
                                                      !.res = IF mt.remove_requested
                                                              THEN "PluginReadyToRemove"
                                                              ELSE "Ok"]])

\* activation, deactivation and removal by the user, the idle ticks, the
\* schedules and the blocks of the audio thread
RemovalNext ==
    \/ Activate
    \/ ScheduleDeactivate
    \/ ScheduleRemove
    \/ OnIdle
    \/ PublishSchedule
    \/ SwapSchedule
    \/ DropProcessor
    \/ ProcessBegin
    \/ ProcessRunContinue

\* a host as new leaves it: the life of a loaded one, and the calls a host
\* without a plug-in answers
NewNext ==
    \/ mt.main_thread /\ RemovalNext
    \/ ~mt.main_thread /\ ScheduleRemove
    \/ ActivateNotLoaded
    \/ OnIdleNotLoaded

RegestureNext ==
    \/ ActivateOk
    \/ ScheduleDeactivate
    \/ OnIdleNoRequest
    \/ PublishSchedule
    \/ SwapSchedule
    \/ DropProcessor
    \/ ProcessBegin
    \/ ProcessRunOneEvent

RestartOnceNext ==
    \/ Activate
    \/ ScheduleDeactivate
    \/ OnIdleRestart
    \/ PublishSchedule
    \/ SwapSchedule
    \/ DropProcessor
    \/ ProcessBegin
    \/ ProcessRunContinue

FanOutNext ==
    \/ Activate
    \/ RequestDeactivate
    \/ PublishSchedule
    \/ SwapSchedule
    \/ ProcessBegin
    \/ ProcessRunFanOut
    \/ PeerTaskRun

LifeCycleNext ==
    \/ Activate
    \/ RequestDeactivate
    \/ OnIdle
    \/ PublishSchedule
    \/ SwapSchedule
    \/ DropProcessor
    \/ ProcessBegin
    \/ ProcessRun

\* the parameter queues between the controller and the processor
ParamsNext ==
    \/ Activate
    \/ SetParamValue
    \/ OnIdle
    \/ PublishSchedule
    \/ SwapSchedule
    \/ ProcessBegin
    \/ ProcessRunEvents

\* everything the engine and the plug-in can do to the host
HostNext ==
    \/ Activate
    \/ RequestDeactivate
    \/ ScheduleDeactivate
    \/ ScheduleRemove
    \/ OnIdleAnyRequest
    \/ PublishSchedule
    \/ SwapSchedule
    \/ DropProcessor
    \/ ProcessBegin
    \/ ProcessRun

vars == <<cvars, hvars>>

Init == InitCompiler /\ InitHost

\* the life cycle of the plug-in host
Spec == Init /\ [][LifeCycleNext]_vars

\* the host with restarts and removal
SpecHost == Init /\ [][HostNext]_vars

\* activation and its failures
SpecActivation == Init /\ [][ActivationNext]_vars

\* restart and removal
SpecRestart == Init /\ [][RestartNext]_vars

\* the calls that set parameters
SpecControl == Init /\ [][ControlNext]_vars

\* the parameter queues between the controller and the processor
SpecQuiet == Init /\ [][QuietNext]_vars

SpecError == Init /\ [][ErrorNext]_vars

SpecOutputs == Init /\ [][OutputsNext]_vars

SpecInactive == Init /\ [][InactiveNext]_vars

SpecGestures == Init /\ [][GesturesNext]_vars

SpecEventIn == Init /\ [][EventInNext]_vars

SpecRestartOnce == Init /\ [][RestartOnceNext]_vars

SpecRegesture == Init /\ [][RegestureNext]_vars

\* the idle ticks keep coming, the audio thread keeps running, new schedules
\* are published and taken, released processors are dropped
SpecRemoval ==
    /\ Init
    /\ [][RemovalNext]_vars
    /\ WF_vars(OnIdle)
    /\ WF_vars(PublishSchedule)
    /\ WF_vars(SwapSchedule)
    /\ WF_vars(DropProcessor)
    /\ WF_vars(ProcessBegin)
    /\ WF_vars(ProcessRunContinue)

SpecFanOut == Init /\ [][FanOutNext]_vars

\* hosts made with and without a main-thread plug-in
SpecNew == InitNew /\ [][NewNext]_vars

SpecParams == Init /\ [][ParamsNext]_vars

\* the schedule compiler
SpecCompiler == Init /\ [][CompilerNext]_vars

\* the schedule compiler run again on schedules it has compiled before
SpecRepeat == Init /\ [][RepeatNext]_vars

(***************************************************************************)
(*                    PROPERTIES OF THE SCHEDULE COMPILER                  *)
(***************************************************************************)

\* compile_graph has returned a schedule (as Ok or inside a VerifierError): it
\* ran to the eviction step
CompileRanToEnd == cg_pc = "done" /\ cg_result.has_schedule

\* C7: a delay entry (edge, delay, port type) that appears in two consecutive
\* compiles gets, in the second compiled schedule, the very delay node the first
\* compiled schedule used: no new node is constructed for it.
C7_DelayNodeReused ==
    (CompileRanToEnd /\ prev_compile.has_schedule) =>
        \A t \in DelayNodesOf(cg_result.schedule) :
            \A p \in prev_compile.nodes : t.key = p.key => t.node = p.node

\* C7 witness: two consecutive compiled schedules share a delay key
C7_Witness ==
    /\ CompileRanToEnd
    /\ prev_compile.has_schedule
    /\ \E t \in DelayNodesOf(cg_result.schedule) :
           \E p \in prev_compile.nodes : t.key = p.key

\* C8: a delay entry of compile N that is absent from compile N+1 has no entry
\* in the delay-comp cache once compile N+1 has run to its end.
C8_StaleDelayNodeEvicted ==
    CompileRanToEnd =>
        \A k \in prev_compile.keys \ AbsDelayKeys(abstract_schedule) :
            k \notin CacheKeys(delay_comp_nodes)

\* C8 witness: a key the previous compile left in the cache is gone
C8_Witness ==
    /\ CompileRanToEnd
    /\ \E k \in prev_compile.keys \ AbsDelayKeys(abstract_schedule) :
           k \in CacheKeys(prev_compile.cache)

\* C9: compile_graph returns Ok(schedule) only for the schedule it built and the
\* verifier accepted; a schedule the verifier rejects comes back inside a
\* VerifierError together with the abstract schedule, never as Ok.
C9_OkOnlyIfVerified ==
    CompileRanToEnd =>
        /\ cg_result.schedule = tasks
        /\ cg_result.kind = "Ok" => ~VerifierRejects(tasks)
        /\ VerifierRejects(tasks) =>
              /\ cg_result.kind = "VerifierError"
              /\ cg_result.abs = abstract_schedule

\* C9 witness: the verifier rejected a schedule of two tasks
C9_Witness ==
    /\ CompileRanToEnd
    /\ VerifierRejects(tasks)
    /\ Len(tasks) = 2

\* C10: a Delay entry with a negative delay makes compile_graph return
\* UnexpectedError and no schedule.
C10_NegativeDelayIsError ==
    (cg_pc = "done" /\ \E e \in Range(abstract_schedule) :
                           e.kind = "Delay" /\ e.delay10 < 0)
        => (cg_result.kind = "UnexpectedError" /\ ~cg_result.has_schedule)

\* The compile that has just run to its end walked the abstract schedule of the
\* remembered, earlier compile and started from the same cache.
SameInputs ==
    /\ CompileRanToEnd
    /\ ref_compile.n > 0
    /\ ref_compile.n < num_compiles
    /\ ref_compile.abs = abstract_schedule
    /\ ref_compile.cache = CacheNodes(prev_compile.cache)

\* the cache key of a delay task
KeyOfTask(t) == DelayCompKey(TaskPortType(t.kind), t.edge, t.delay)

\* C11 as stated: two compiles of the same abstract schedule from the same
\* cache give the same task list, delay-node identities included.
C11_Original == SameInputs => tasks = ref_compile.tasks

\* C11: two compiles of the same abstract schedule from the same cache give task
\* lists of the same length with, at each position, the same kind, node id, edge,
\* delay and buffer indices; a delay task whose key is in the starting cache
\* points to the same delay node in both, a delay task whose key is not in the
\* starting cache points in each compile to a node that is not in that cache.
C11_SameTasksUpToNewNodes ==
    SameInputs =>
        /\ Len(tasks) = Len(ref_compile.tasks)
        /\ \A i \in 1..Len(tasks) :
              LET a == tasks[i]
                  b == ref_compile.tasks[i]
              IN /\ [a EXCEPT !.node = 0] = [b EXCEPT !.node = 0]
                 /\ a.kind \in DelayTaskKinds =>
                       IF KeyOfTask(a) \in {n.key : n \in ref_compile.cache}
                       THEN /\ a.node = b.node
                            /\ \E n \in ref_compile.cache :
                                  n.key = KeyOfTask(a) /\ n.node = a.node
                       ELSE /\ a.node \notin {n.node : n \in ref_compile.cache}
                            /\ b.node \notin {n.node : n \in ref_compile.cache}

\* C11 witness: a schedule of two tasks compiled a second time from the same
\* cache, with a delay node taken from the cache
C11_Witness ==
    /\ SameInputs
    /\ Len(tasks) = 2
    /\ \E i \in 1..Len(tasks) :
          /\ tasks[i].kind \in DelayTaskKinds
          /\ KeyOfTask(tasks[i]) \in {n.key : n \in ref_compile.cache}

\* C12: a compile that returns Ok emits one task per entry of the abstract
\* schedule, in order: GraphIn, GraphOut or Plugin for a Node entry by its id,
\* the delay task of the port type with the rounded delay and the entry's
\* buffers for a Delay entry, a Sum task for a Sum entry.
C12_OneTaskPerEntry ==
    (cg_pc = "done" /\ cg_result.kind = "Ok") =>
        /\ Len(cg_result.schedule) = Len(abstract_schedule)
        /\ \A i \in 1..Len(abstract_schedule) :
              LET e == abstract_schedule[i]
                  k == cg_result.schedule[i]
              IN /\ e.kind = "Node" =>
                       /\ k.kind = (IF e.id = "graph_in" THEN "GraphIn"
                                    ELSE IF e.id = "graph_out" THEN "GraphOut"
                                    ELSE "Plugin")
                       /\ k.id = e.id
                 /\ e.kind = "Delay" =>
                       /\ e.type = "audio" => k.kind = "AudioDelayComp"
                       /\ e.type = "note" => k.kind = "NoteDelayComp"
                       /\ e.type = "param_event" => k.kind = "ParamEventDelayComp"
                       /\ e.type \in PortTypes
                       /\ k.delay = RoundToI64(e.delay10)
                       /\ k.edge = e.edge
                       /\ k.ins = {e.inb}
                       /\ k.outs = {e.outb}
                 /\ e.kind = "Sum" => (k.kind = "Sum" /\ k.outs = {e.outb})

\* C12 witness: an Ok schedule of a graph-in node and a note delay
C12_Witness ==
    /\ cg_pc = "done"
    /\ cg_result.kind = "Ok"
    /\ Len(abstract_schedule) = 2
    /\ abstract_schedule[1].kind = "Node" /\ abstract_schedule[1].id = "graph_in"
    /\ abstract_schedule[2].kind = "Delay" /\ abstract_schedule[2].type = "note"

(***************************************************************************)
(*                     PROPERTIES OF THE PLUG-IN HOST                      *)
(***************************************************************************)

\* C13: activate called while C5 is neither Inactive nor InactiveWithError
\* returns an error without calling the plug-in's activate, without writing C5
\* and without publishing a processor.
C13_ActivateOnlyWhenInactive ==
    (last.op = "activate" /\ last.state \notin {"Inactive", "InactiveWithError"}) =>
        /\ last.res = "Err"
        /\ last.activate = "AlreadyActive"
        /\ plugin_state = last.state

\* activate has just failed after its pre-check (called directly or by on_idle)
ActivateFailed == last.activate \in AllActivateFailures

\* C14: when activate fails after its pre-check, C5 is InactiveWithError, the
\* parameter queues are None, no processor was created or published and the
\* parameter registry is the one from before the call.
C14_FailedActivateLeavesError ==
    [][ActivateFailed' =>
          /\ plugin_state' = "InactiveWithError"
          /\ mt'.param_queues = 0
          /\ mt'.audio_thread = mt.audio_thread
          /\ \A p \in ProcIDs : procs'[p].status = procs[p].status
          /\ engine' = engine
          /\ mt'.params = mt.params
          /\ plug_active' = (plug_active /\ ~last'.deactivated)]_vars

\* C14 witness: a reactivation by on_idle failed in the plug-in's activate, the registry
\* holds the parameters of the activation before
C14_Witness ==
    /\ last.op = "on_idle"
    /\ last.deactivated
    /\ last.activate = "PluginSpecific"
    /\ mt.params # {}
    /\ plugin_state = "InactiveWithError"
    /\ mt.param_queues = 0

\* set_param_value has just returned for a parameter that is in the registry
\* and not read-only
SetAccepted ==
    /\ last.op = "set_param_value"
    /\ last.param_id \in mt.params
    /\ ~ParamInfo(last.param_id).read_only

\* what set_param_value does when it fails, and what it returns otherwise
SetParamValueResult ==
    /\ last'.param_id \notin mt.params =>
          /\ last'.err = "ParamDoesNotExist"
          /\ procs' = procs
          /\ last'.save_state_dirty = "unchanged"
    /\ (last'.param_id \in mt.params /\ ParamInfo(last'.param_id).read_only) =>
          /\ last'.err = "ParamIsReadOnly"
          /\ procs' = procs
          /\ last'.save_state_dirty = "unchanged"
    /\ SetAccepted' =>
          LET info == ParamInfo(last'.param_id)
              v == last'.arg
          IN /\ last'.res = "Ok"
             /\ last'.err = "none"
             /\ last'.value = (IF v < info.min_value THEN info.min_value
                               ELSE IF v > info.max_value THEN info.max_value
                               ELSE v)
             /\ last'.save_state_dirty = "true"

C16_SetParamModAmount ==
    last.op = "set_param_mod_amount" =>
        /\ last.param_id \notin mt.params => last.err = "ParamDoesNotExist"
        /\ (last.param_id \in mt.params
                /\ ~ParamInfo(last.param_id).is_modulatable) =>
              last.err = "ParamIsNotModulatable"
        /\ (last.param_id \in mt.params
                /\ ParamInfo(last.param_id).is_modulatable) =>
              /\ last.res = "Ok"
              /\ last.value = last.arg
              /\ mt.param_queues # 0 =>
                    [id |-> last.param_id, value |-> last.arg]
                       \in procs[mt.param_queues].to_proc_param_mod

\* on_idle has just returned and had read C5 = DroppedAndReadyToDeactivate
IdleAtDropped ==
    last.op = "on_idle" /\ last.state = "DroppedAndReadyToDeactivate"

\* C17: schedule_remove sets remove_requested and nothing clears it; once it is
\* set no on_idle calls activate or returns PluginActivated, whatever the
\* plug-in requested, and the on_idle that reads DroppedAndReadyToDeactivate
\* deactivates the plug-in and returns PluginReadyToRemove.
C17_RemoveIsSticky ==
    /\ [][/\ last'.op = "schedule_remove" => mt'.remove_requested
          /\ mt.remove_requested => mt'.remove_requested]_vars
    /\ []((last.op = "on_idle" /\ mt.remove_requested) =>
             /\ last.activate = "not_called"
             /\ last.res \notin {"PluginActivated", "PluginFailedToActivate"}
             /\ IdleAtDropped =>
                   /\ last.deactivated
                   /\ last.res = "PluginReadyToRemove"
                   /\ plugin_state = "Inactive")

\* C17 witness: the plug-in asked for a restart and for processing, the
\* on_idle after the drop answers PluginReadyToRemove
C17_Witness ==
    /\ IdleAtDropped
    /\ mt.remove_requested
    /\ {"PROCESS", "RESTART"} \subseteq last.request_flags
    /\ last.res = "PluginReadyToRemove"

\* C19: an on_idle that reads C5 = DroppedAndReadyToDeactivate calls the
\* plug-in's deactivate and sets C5 to Inactive; then it returns
\* PluginReadyToRemove if removal was requested; otherwise it calls activate if
\* the plug-in is restarting or requested PROCESS, and returns PluginActivated
\* or PluginFailedToActivate; otherwise it sets save_state.active to false and
\* returns PluginDeactivated.
C19_IdleAtDropped ==
    IdleAtDropped =>
        /\ last.deactivated
        /\ last.state_at_deactivate = "DroppedAndReadyToDeactivate"
        /\ IF mt.remove_requested
           THEN /\ last.res = "PluginReadyToRemove"
                /\ last.activate = "not_called"
                /\ last.save_state_active = "unchanged"
                /\ plugin_state = "Inactive"
           ELSE IF mt.restarting \/ "PROCESS" \in last.request_flags
           THEN /\ last.activate \notin {"not_called", "AlreadyActive"}
                /\ last.activate = "Ok" =>
                      /\ last.res = "PluginActivated"
                      /\ is_active(plugin_state)
                      /\ plug_active
                /\ last.activate # "Ok" =>
                      /\ last.res = "PluginFailedToActivate"
                      /\ plugin_state = "InactiveWithError"
                      /\ ~plug_active
           ELSE /\ last.activate = "not_called"
                /\ last.save_state_active = "false"
                /\ last.save_state_dirty = "true"
                /\ last.res = "PluginDeactivated"
                /\ plugin_state = "Inactive"
                /\ ~plug_active

\* C19 witness: the plug-in is not restarting and requested PROCESS, on_idle
\* deactivated and activated it
C19_Witness ==
    /\ IdleAtDropped
    /\ ~mt.remove_requested
    /\ ~mt.restarting
    /\ "PROCESS" \in last.request_flags
    /\ last.deactivated
    /\ last.res = "PluginActivated"

BlockEnded == blk.state # "none"

QuietBlock ==
    /\ BlockEnded
    /\ blk.state = "ActiveAndWaitingForQuiet"
    /\ ~blk.note_in
    /\ blk.in_silent

SleptOnSilence ==
    /\ blk.stop = 1
    /\ blk.process = 0
    /\ blk.wrote = "ActiveAndSleeping"
    /\ plugin_state = "ActiveAndSleeping"
    /\ blk.cleared
    /\ (blk.flush = 1 <=> blk.in_events # <<>>)
    /\ blk.flush \in {0, 1}

\* C18 as stated: a block that starts with C5 = ActiveAndWaitingForQuiet, has
\* no note-in event and silent audio inputs calls stop_processing once, does
\* not call process, sets C5 to ActiveAndSleeping, clears the outputs and
\* calls param_flush exactly when it collected a parameter event.
C18_Original == QuietBlock => SleptOnSilence

\* C18: a block that starts with C5 = ActiveAndWaitingForQuiet, has no
\* note-in event, silent audio inputs and no DEACTIVATE request calls
\* stop_processing once, does not call process, sets C5 to ActiveAndSleeping,
\* clears the outputs and calls param_flush exactly when it collected a
\* parameter event.
C18_SleepOnSilenceOneBlock == (QuietBlock /\ ~blk.deactivate) => SleptOnSilence

C18_Witness ==
    /\ QuietBlock
    /\ ~blk.deactivate
    /\ blk.in_events # <<>>
    /\ blk.flush = 1
    /\ blk.stop = 1
    /\ plugin_state = "ActiveAndSleeping"

\* the ParamValue events of parameter id in a list of events
ValueEventsOf(events, id) ==
    SelectSeq(events, LAMBDA e : e.type = "ParamValue" /\ e.id = id)

C2_AtMostOneProcessAfterDeactivate ==
    /\ track.process_since_deactivate <= 1
    /\ (BlockEnded /\ blk.deactivate)
          => /\ blk.process = 0
             /\ blk.start = "none"
             /\ blk.wrote = "WaitingToDrop"
             /\ plugin_state = "WaitingToDrop"
             /\ blk.cleared

C2_Witness ==
    /\ BlockEnded
    /\ blk.deactivate
    /\ track.process_since_deactivate = 1
    /\ plugin_state = "WaitingToDrop"

C4_Original == blk.owed # 2

\* C4: when process has returned ContinueIfNotQuiet and the next block has
\* silent audio inputs, no note-in event and no DEACTIVATE request, that same
\* block calls stop_processing once, does not call process and sets C5 to
\* ActiveAndSleeping.
C4_SleepOnSilence ==
    (/\ BlockEnded
     /\ blk.prev_status = "ContinueIfNotQuiet"
     /\ blk.in_silent
     /\ ~blk.note_in
     /\ ~blk.deactivate)
       => /\ blk.state = "ActiveAndWaitingForQuiet"
          /\ blk.stop = 1
          /\ blk.process = 0
          /\ blk.wrote = "ActiveAndSleeping"
          /\ plugin_state = "ActiveAndSleeping"

C4_Witness ==
    /\ BlockEnded
    /\ blk.prev_status = "ContinueIfNotQuiet"
    /\ blk.in_silent
    /\ ~blk.note_in
    /\ blk.stop = 1
    /\ plugin_state = "ActiveAndSleeping"

\* C5 as stated: after set_param_value(id, v_1), ..., set_param_value(id, v_k)
\* with no block in between, the block that drains the queue puts exactly one
\* ParamValue event for id into in_events, and it carries v_k.
C5_Original ==
    (BlockEnded /\ blk.drained /\ blk.sets.n >= 1)
       => LET events == ValueEventsOf(blk.in_events, blk.sets.id)
          IN Len(events) = 1 /\ events[1].value = blk.sets.raw

\* C5: after set_param_value(id, v_1), ..., set_param_value(id, v_k) with no
\* block in between, the block that drains the queue puts exactly one
\* ParamValue event for id into in_events; it carries v_k clamped to the
\* parameter's [min_value, max_value], and the queue is empty afterwards.
C5_CoalescedToClampedLast ==
    (BlockEnded /\ blk.drained /\ blk.sets.n >= 1)
       => LET events == ValueEventsOf(blk.in_events, blk.sets.id)
              info == ParamInfo(blk.sets.id)
          IN /\ Len(events) = 1
             /\ events[1].value = Clamp(blk.sets.raw, info.min_value, info.max_value)
             /\ procs[blk.proc].to_proc_param_value = {}

C5_Witness ==
    /\ BlockEnded
    /\ blk.drained
    /\ blk.sets.n = 2
    /\ Len(ValueEventsOf(blk.in_events, blk.sets.id)) = 1

\* C6 as stated: when the plug-in has produced gesture-begin, values,
\* gesture-end for one parameter in one block, the main thread observes the
\* gesture-begin: the on_idle that polls the queue reports the parameter with
\* is_gesturing = true before it reports the end.
C6_Original ==
    (last.op = "on_idle" /\ last.gesture # <<>>)
       => \E m \in last.modified : m.param_id \in GestureParams /\ m.is_gesturing

\* C6: when the plug-in has produced gesture-begin, values, gesture-end for
\* one parameter in one block, the three are merged into one queue entry: the
\* on_idle that polls the queue reports exactly one ParamModifiedInfo for the
\* parameter, with the last value and is_gesturing = false, and the main thread
\* holds the parameter as not gesturing; the gesture-begin is not observed.
C6_GestureCoalesced ==
    (last.op = "on_idle" /\ last.gesture # <<>>)
       => /\ \A i \in GestureParams :
               /\ {m \in last.modified : m.param_id = i}
                     = {[param_id |-> i, new_value |-> last.gesture,
                         is_gesturing |-> FALSE]}
               /\ ~mt.gesturing_params[i]
          /\ mt.param_queues # 0
                => procs[mt.param_queues].from_proc_param_value = {}

C6_Witness ==
    /\ last.op = "on_idle"
    /\ last.gesture # <<>>
    /\ last.modified # {}

IdleWithProcess ==
    /\ last.op = "on_idle"
    /\ "PROCESS" \in last.request_flags
    /\ last.state # "DroppedAndReadyToDeactivate"

\* C21: an on_idle that fetched PROCESS and did not read C5 =
\* DroppedAndReadyToDeactivate, with neither remove_requested nor restarting
\* set when the request is looked at: at an active C5 it raises the process
\* request for the audio thread and leaves C5 alone; at Inactive or
\* InactiveWithError it calls activate and returns PluginActivated or
\* PluginFailedToActivate; at WaitingToDrop it does neither.  With
\* remove_requested or restarting set it calls no activate and raises no
\* process request.
C21_ProcessRequest ==
    [][IdleWithProcess' =>
         IF ~mt'.remove_requested /\ ~mt'.restarting
         THEN /\ is_active(last'.state) =>
                    /\ "PROCESS" \in host_request'
                    /\ plugin_state' = plugin_state
                    /\ last'.activate = "not_called"
                    /\ last'.res = "Ok"
              /\ last'.state \in {"Inactive", "InactiveWithError"} =>
                    /\ last'.activate \notin {"not_called", "AlreadyActive"}
                    /\ last'.activate = "Ok" => last'.res = "PluginActivated"
                    /\ last'.activate # "Ok" => last'.res = "PluginFailedToActivate"
              /\ last'.state = "WaitingToDrop" =>
                    /\ last'.activate = "not_called"
                    /\ host_request' = host_request
                    /\ plugin_state' = plugin_state
                    /\ last'.res = "Ok"
         ELSE /\ last'.activate = "not_called"
              /\ host_request' \ host_request \subseteq {"DEACTIVATE"}
              /\ last'.res = "Ok"]_vars

\* C21 witness: the plug-in is active and neither removed nor restarting,
\* on_idle has forwarded the request
C21_Witness ==
    /\ IdleWithProcess
    /\ is_active(last.state)
    /\ ~mt.remove_requested
    /\ ~mt.restarting
    /\ "PROCESS" \in host_request
    /\ last.res = "Ok"

\* C22, the block where it happens: a failed start_processing sets C5 to
\* ActiveWithError and process is not called
C22_StartFailure ==
    (BlockEnded /\ blk.start = "failed") =>
        /\ blk.wrote = "ActiveWithError"
        /\ plugin_state = "ActiveWithError"
        /\ blk.process = 0

\* C22, the blocks that start at ActiveWithError: no start_processing, no
\* process, no stop_processing; C5 is written only on DEACTIVATE, and then it
\* becomes WaitingToDrop
C22_ErrorBlock ==
    (BlockEnded /\ blk.state = "ActiveWithError") =>
        /\ blk.start = "none"
        /\ blk.process = 0
        /\ blk.stop = 0
        /\ blk.flush = 0
        /\ IF blk.deactivate
           THEN blk.wrote = "WaitingToDrop" /\ plugin_state = "WaitingToDrop"
           ELSE blk.wrote = "none"

\* C22 as stated: once start_processing has failed on a processor, no later
\* block of that processor calls start_processing or process.
C22_NeverAgain ==
    (BlockEnded /\ blk.proc # 0 /\ procs[blk.proc].start_failed
       /\ blk.start # "failed") =>
        /\ blk.start = "none"
        /\ blk.process = 0

\* C23: in a block where process returns Error the audio outputs are cleared,
\* no event of that call is left in the event-out or note-out buffer, the
\* status writes nothing to C5 and stop_processing is not called; the next
\* block of the processor calls process again unless DEACTIVATE is requested
\* or the block is put to sleep by the quiet rule.
C23_ErrorSilencesOutputs ==
    /\ (BlockEnded /\ blk.status = "Error") =>
          /\ blk.process = 1
          /\ blk.cleared
          /\ blk.event_out = <<>>
          /\ blk.note_out = <<>>
          /\ blk.stop = 0
          /\ blk.wrote = IF blk.start = "ok" THEN "ActiveAndProcessing" ELSE "none"
    /\ (BlockEnded /\ blk.prev_status = "Error" /\ is_active(blk.state)
          /\ ~blk.deactivate /\ blk.wrote # "ActiveAndSleeping") =>
             blk.process = 1

\* C23 without the event buffers: what an Error block does besides
C23_ErrorKeepsState ==
    /\ (BlockEnded /\ blk.status = "Error") =>
          /\ blk.process = 1
          /\ blk.cleared
          /\ blk.stop = 0
          /\ blk.wrote = IF blk.start = "ok" THEN "ActiveAndProcessing" ELSE "none"
    /\ (BlockEnded /\ blk.prev_status = "Error" /\ is_active(blk.state)
          /\ ~blk.deactivate /\ blk.wrote # "ActiveAndSleeping") =>
             blk.process = 1

\* C24: after a block in which process has returned, C5 is
\* ActiveAndProcessing for Continue, ActiveAndWaitingForQuiet for
\* ContinueIfNotQuiet, ActiveAndSleeping with one stop_processing call for
\* Sleep, and for Tail ActiveAndSleeping with one stop_processing call when the
\* audio outputs are silent and ActiveAndProcessing without one otherwise.
C24_StatusMapping ==
    (BlockEnded /\ blk.process = 1) =>
        CASE blk.status = "Continue" ->
               plugin_state = "ActiveAndProcessing" /\ blk.stop = 0
          [] blk.status = "ContinueIfNotQuiet" ->
               plugin_state = "ActiveAndWaitingForQuiet" /\ blk.stop = 0
          [] blk.status = "Sleep" ->
               plugin_state = "ActiveAndSleeping" /\ blk.stop = 1
          [] blk.status = "Tail" ->
               \/ plugin_state = "ActiveAndSleeping" /\ blk.stop = 1
               \/ plugin_state = "ActiveAndProcessing" /\ blk.stop = 0
          [] OTHER -> TRUE

\* the value of C5 as the block sees it when it returns: what it wrote last,
\* or else what it read at its start
BlockState == IF blk.wrote # "none" THEN blk.wrote ELSE blk.state

\* C24 seen from the block alone: the same mapping for the state the block
\* holds when it returns
C24_BlockView ==
    (BlockEnded /\ blk.process = 1) =>
        CASE blk.status = "Continue" ->
               BlockState = "ActiveAndProcessing" /\ blk.stop = 0
          [] blk.status = "ContinueIfNotQuiet" ->
               BlockState = "ActiveAndWaitingForQuiet" /\ blk.stop = 0
          [] blk.status = "Sleep" ->
               BlockState = "ActiveAndSleeping" /\ blk.stop = 1
          [] blk.status = "Tail" ->
               \/ BlockState = "ActiveAndSleeping" /\ blk.stop = 1
               \/ BlockState = "ActiveAndProcessing" /\ blk.stop = 0
          [] OTHER -> TRUE

SleepingBlock == BlockEnded /\ blk.state = "ActiveAndSleeping"

Woken == blk.start # "none"

WakeEffects ==
    /\ Woken =>
          /\ "PROCESS" \notin host_request
          /\ blk.start \in {"ok", "failed"}
    /\ blk.start = "ok" =>
          /\ blk.process = 1
          /\ blk.wrote # "none"
          /\ plugin_state = blk.wrote
          /\ blk.status \in {"Continue", "Error"} =>
                plugin_state = "ActiveAndProcessing"
    /\ blk.start = "failed" =>
          /\ blk.process = 0
          /\ plugin_state = "ActiveWithError"
    /\ ~Woken =>
          /\ blk.process = 0
          /\ blk.wrote = "none"

\* C25 as stated: a block that starts at ActiveAndSleeping wakes the plug-in
\* exactly when PROCESS is requested or a note-in event arrived; waking clears
\* the PROCESS flag and calls start_processing once, and on success C5 is set
\* to ActiveAndProcessing and process is called in the same block.
C25_Original ==
    SleepingBlock =>
        /\ Woken <=> (blk.process_req \/ blk.note_in)
        /\ WakeEffects

\* C25: a block that starts at ActiveAndSleeping without a DEACTIVATE request
\* wakes the plug-in exactly when PROCESS is requested or a note-in event
\* arrived, parameter events alone do not; waking clears the PROCESS flag and
\* calls start_processing once, and on success C5 is set to
\* ActiveAndProcessing and process is called in the same block.
C25_WakeRule ==
    (SleepingBlock /\ ~blk.deactivate) =>
        /\ Woken <=> (blk.process_req \/ blk.note_in)
        /\ WakeEffects

\* C25 witness: a note-in event alone has woken the plug-in
C25_Witness ==
    /\ SleepingBlock
    /\ ~blk.deactivate
    /\ ~blk.process_req
    /\ blk.note_in
    /\ blk.start = "ok"
    /\ blk.process = 1

\* C25, the other direction: a parameter event alone has not woken it
C25_Asleep ==
    /\ SleepingBlock
    /\ ~blk.deactivate
    /\ blk.in_events # <<>>
    /\ ~Woken

InactiveBlock == BlockEnded /\ ~is_active(blk.state)

\* C26: a block that finds C5 not active calls no audio-thread operation of
\* the plug-in, does not write C5, drains no parameter queue and no input
\* buffer, and leaves the audio outputs cleared and the event-out and note-out
\* buffers empty.
C26_InactiveBlock ==
    [][InactiveBlock' =>
         /\ blk'.state = plugin_state
         /\ blk'.start = "none"
         /\ blk'.stop = 0
         /\ blk'.process = 0
         /\ blk'.flush = 0
         /\ blk'.wrote = "none"
         /\ plugin_state' = plugin_state
         /\ ~blk'.drained
         /\ blk'.in_events = <<>>
         /\ procs' = procs
         /\ host_request' = host_request
         /\ blk'.cleared
         /\ blk'.event_out = <<>>
         /\ blk'.note_out = <<>>]_vars

\* C26 witness: the block of a deactivated plug-in has left a pending
\* parameter value in the queue
C26_Witness ==
    /\ InactiveBlock
    /\ blk.cleared
    /\ procs[blk.proc].to_proc_param_value # {}

\* the gesture markers of parameter id in a sequence of events
MarkersOf(events, id) ==
    SelectSeq(events, LAMBDA e : IsGestureMarker(e) /\ e.id = id)

\* begin, end, begin, ... when first_is_begin, else end, begin, end, ...
Alternates(markers, first_is_begin) ==
    \A i \in 1..Len(markers) :
        (markers[i].type = "ParamGestureBegin") = (first_is_begin = (i % 2 = 1))

\* C27: in a block that calls process, the gesture markers of a parameter
\* that reach the audio-to-main queue alternate, the first being a begin
\* exactly when the parameter was not being adjusted before the block; a
\* begin is never forwarded while is_adjusting_parameter is true and an end
\* never while it is false; afterwards is_adjusting_parameter tells whether
\* the last forwarded marker was a begin.  A new processor starts with every
\* parameter not adjusted, so its first forwarded marker is a begin.
C27_GestureFiltering ==
    /\ (BlockEnded /\ blk.process = 1) =>
          \A id \in ParamIDs :
             LET f == MarkersOf(blk.forwarded, id)
                 sent == MarkersOf(blk.out_events, id)
             IN /\ Alternates(f, ~blk.adjusting[id])
                /\ Len(f) <= Len(sent)
                /\ sent # <<>> =>
                      (f = <<>>) <=>
                         \A i \in 1..Len(sent) :
                            (sent[i].type = "ParamGestureBegin") = blk.adjusting[id]
                /\ procs[blk.proc].is_adjusting_parameter[id] =
                      IF f = <<>> THEN blk.adjusting[id]
                      ELSE f[Len(f)].type = "ParamGestureBegin"
    /\ \A p \in ProcIDs : \A id \in ParamIDs :
          procs[p].status = "none" => ~procs[p].is_adjusting_parameter[id]

\* C27 witness: the plug-in sent begin twice, one begin was forwarded
C27_Witness ==
    /\ BlockEnded
    /\ blk.process = 1
    /\ Len(blk.out_events) = 2
    /\ \A i \in 1..2 : blk.out_events[i].type = "ParamGestureBegin"
    /\ Len(blk.forwarded) = 1

\* the block has called process or param_flush with in_events
PluginCalled == blk.process = 1 \/ blk.flush = 1

\* C28 as stated: an event read from an event-in buffer is passed to the
\* plug-in if and only if it is a Transport event or a ParamValue / ParamMod
\* event whose target is this plug-in.
C28_Original ==
    (BlockEnded /\ blk.drained) =>
        blk.passed = as_unknown(SelectSeq(blk.event_in,
            LAMBDA e : \/ e.type = "Transport"
                       \/ /\ e.type \in {"ParamValue", "ParamMod"}
                          /\ e.target = SelfNode))

\* C28: in a block that calls process or param_flush, the events of the
\* event-in buffer handed to the plug-in are exactly its Transport events and
\* its ParamValue / ParamMod events whose target is this plug-in, in their
\* order; events addressed to another plug-in or to none are never handed
\* over; a block that calls neither hands over nothing.
C28_EventInRouting ==
    BlockEnded =>
        /\ PluginCalled =>
              blk.passed = as_unknown(SelectSeq(blk.event_in,
                  LAMBDA e : \/ e.type = "Transport"
                             \/ /\ e.type \in {"ParamValue", "ParamMod"}
                                /\ e.target = SelfNode))
        /\ ~PluginCalled => blk.passed = <<>>

\* C28 witness: of a Transport event and a ParamValue event for another
\* plug-in, process has received the Transport event alone
C28_Witness ==
    /\ BlockEnded
    /\ blk.process = 1
    /\ Len(blk.event_in) = 2
    /\ \E i \in 1..2 : blk.event_in[i].type = "Transport"
    /\ \E i \in 1..2 : blk.event_in[i].target = OtherNode
    /\ Len(blk.passed) = 1
    /\ blk.passed[1].type = "Transport"

Dropped == "DroppedAndReadyToDeactivate"

\* C29: C5 becomes DroppedAndReadyToDeactivate only in the step that drops a
\* processor; the drop calls stop_processing exactly when C5 was
\* ActiveAndProcessing or ActiveAndWaitingForQuiet, and leaves C5 at
\* DroppedAndReadyToDeactivate.
C29_DropSetsDropped ==
    /\ [][(plugin_state' = Dropped /\ plugin_state # Dropped) =>
             /\ last'.op = "drop"
             /\ \E p \in ProcIDs :
                   procs[p].status = "live" /\ procs'[p].status = "dropped"]_vars
    /\ [](last.op = "drop" =>
             /\ plugin_state = Dropped
             /\ last.stop \in {0, 1}
             /\ last.stop = 1 <=>
                   last.state \in {"ActiveAndProcessing", "ActiveAndWaitingForQuiet"})

\* C29 witness: a processor was dropped while C5 was ActiveAndWaitingForQuiet
C29_Witness ==
    /\ last.op = "drop"
    /\ last.state = "ActiveAndWaitingForQuiet"
    /\ last.stop = 1
    /\ plugin_state = Dropped

\* C29, the other side: a drop at ActiveAndSleeping has not called
\* stop_processing
C29_NoStop ==
    /\ last.op = "drop"
    /\ last.state = "ActiveAndSleeping"
    /\ last.stop = 0

\* C30: after any sequence of compiles every key of the delay-comp caches has
\* delay_samples >= 1.
C30_CacheKeysPositive ==
    \A c \in delay_comp_nodes : c.key.delay >= 1

\* C30, what does hold: no key has a negative delay
C30_CacheKeysNotNegative ==
    \A c \in delay_comp_nodes : c.key.delay >= 0

\* C31: after every compile that runs to the eviction step, whatever earlier
\* failed compiles left in the cache, the cache map of each port type holds
\* exactly the (edge, delay) keys of the delay entries of that port type in the
\* abstract schedule just compiled, once each, and every entry is active.
C31_ReSweep ==
    CompileRanToEnd =>
        /\ \A type \in PortTypes :
              {k \in CacheKeys(delay_comp_nodes) : k.type = type}
                 = {k \in AbsDelayKeys(abstract_schedule) : k.type = type}
        /\ \A n \in delay_comp_nodes : n.active
        /\ Cardinality(delay_comp_nodes) = Cardinality(CacheKeys(delay_comp_nodes))

\* C31 witness: the compile before failed and left in the cache a key the
\* abstract schedule just compiled does not have; this compile ran to the
\* eviction step with a delay entry of its own
C31_Witness ==
    /\ CompileRanToEnd
    /\ num_compiles >= 2
    /\ ~prev_compile.has_schedule
    /\ CacheKeys(prev_compile.cache) \ AbsDelayKeys(abstract_schedule) # {}
    /\ delay_comp_nodes # {}

\* C32: the entries merged into the processor -> main queue in one block leave,
\* for each parameter, one pending entry whose value is the last Some value
\* and whose gesture is the last Some gesture among the entry that was pending
\* before the block and the entries merged in the block; a field no merged
\* entry sets keeps what was pending, so a value update does not clobber a
\* pending gesture-begin and a gesture does not clobber a pending value.
C32_CoalescingRule ==
    (BlockEnded /\ blk.process = 1) =>
        \A i \in ParamIDs :
            LET before == {e \in blk.pending : e.id = i}
                after == {e \in procs[blk.proc].from_proc_param_value : e.id = i}
                new_values == SelectSeq(blk.out_events,
                                  LAMBDA e : e.type = "ParamValue" /\ e.id = i)
                new_gestures == SelectSeq(blk.forwarded, LAMBDA e : e.id = i)
                old_value == IF before = {} THEN <<>>
                             ELSE (CHOOSE e \in before : TRUE).value
                old_gesture == IF before = {} THEN <<>>
                               ELSE (CHOOSE e \in before : TRUE).gesture
                value == IF new_values = <<>> THEN old_value
                         ELSE <<new_values[Len(new_values)].value>>
                gesture == IF new_gestures = <<>> THEN old_gesture
                           ELSE <<new_gestures[Len(new_gestures)].type
                                      = "ParamGestureBegin">>
            IN IF before = {} /\ new_values = <<>> /\ new_gestures = <<>>
               THEN after = {}
               ELSE after = {[id |-> i, value |-> value, gesture |-> gesture]}

\* C32 witness: a gesture-begin was pending when a block merged value updates
\* only, and the entry still holds the gesture-begin with the last value
C32_Witness ==
    /\ BlockEnded
    /\ blk.process = 1
    /\ \E e \in blk.pending : e.gesture = <<TRUE>> /\ e.value = <<>>
    /\ Len(blk.out_events) >= 2
    /\ blk.forwarded = <<>>
    /\ \E e \in procs[blk.proc].from_proc_param_value :
           e.gesture = <<TRUE>> /\ e.value # <<>>

\* C32, the other way round: a value was pending when a block merged a
\* gesture-begin only
C32_WitnessValueKept ==
    /\ BlockEnded
    /\ blk.process = 1
    /\ \E e \in blk.pending : e.gesture = <<>> /\ e.value # <<>>
    /\ Len(blk.forwarded) = 1
    /\ \A j \in 1..Len(blk.out_events) : blk.out_events[j].type # "ParamValue"
    /\ \E e \in procs[blk.proc].from_proc_param_value :
           e.gesture = <<TRUE>> /\ e.value # <<>>

\* C33: on every processor start_processing and stop_processing alternate,
\* beginning with start_processing: a block or a drop calls stop_processing
\* only on a processor that is started, a block calls start_processing only on
\* one that is not, and at every block boundary a processor is started if and
\* only if C5 is ActiveAndProcessing or ActiveAndWaitingForQuiet.
C33_StartStopAlternate ==
    /\ [](audio.pc = "idle" =>
            \A p \in ProcIDs :
                procs[p].status = "live" =>
                    (procs[p].started <=> is_processing(plugin_state)))
    /\ [][(audio.pc = "run" /\ audio'.pc = "idle") =>
             /\ blk'.start = "ok" => ~procs[audio.proc].started
             /\ blk'.stop = 1 =>
                   (procs[audio.proc].started \/ blk'.start = "ok")]_vars
    /\ [][\A p \in ProcIDs :
             (/\ procs[p].status = "live"
              /\ procs'[p].status = "dropped"
              /\ last'.stop = 1) => procs[p].started]_vars

\* C33, what does hold: until a second processor is created, the calls on
\* the first one alternate and it is started exactly at the processing states
\* of C5
C33_FirstProcessor ==
    /\ [](\A p \in ProcIDs :
            (/\ audio.pc = "idle"
             /\ procs[p].status = "live"
             /\ \A q \in ProcIDs \ {p} : procs[q].status = "none") =>
                (procs[p].started <=> is_processing(plugin_state)))
    /\ [][(/\ audio.pc = "run"
           /\ audio'.pc = "idle"
           /\ \A q \in ProcIDs \ {audio.proc} : procs[q].status = "none") =>
             /\ blk'.start = "ok" => ~procs[audio.proc].started
             /\ blk'.stop = 1 =>
                   (procs[audio.proc].started \/ blk'.start = "ok")]_vars
    /\ [][\A p \in ProcIDs :
             (/\ procs[p].status = "live"
              /\ \A q \in ProcIDs \ {p} : procs[q].status = "none"
              /\ procs'[p].status = "dropped"
              /\ last'.stop = 1) => procs[p].started]_vars

\* C33: a first processor was started by one block and stopped by a later one
C33_Stopped ==
    /\ BlockEnded
    /\ blk.stop = 1
    /\ blk.start = "none"
    /\ \A q \in ProcIDs \ {blk.proc} : procs[q].status = "none"

\* C34: the plug-in's activate and deactivate alternate on the main thread,
\* beginning with activate: activate is not called on a plug-in that is
\* activated unless the same on_idle has deactivated it first, deactivate is
\* called on an activated plug-in only, and at most one processor exists at
\* any time.
C34_ActivateDeactivateAlternate ==
    /\ [][last'.activate = "Ok" => (~plug_active \/ last'.deactivated)]_vars
    /\ [][last'.deactivated => plug_active]_vars
    /\ [](Cardinality({p \in ProcIDs : procs[p].status = "live"}) <= 1)

\* C35: when compile_graph returns a GraphCompilerError, VerifierError
\* included, every delay node that was in the cache before the call is still in
\* the cache afterwards, under its key and as the same instance.
C35_ErrorKeepsCache ==
    (cg_pc = "done" /\ cg_result.kind \notin {"None", "Ok"}) =>
        CacheNodes(prev_compile.cache) \subseteq CacheNodes(delay_comp_nodes)

\* C35, what does hold: the errors returned before the eviction step keep the
\* cache
C35_EarlyErrorKeepsCache ==
    (cg_pc = "done" /\ cg_result.kind \in {"AbstractCompileError", "UnexpectedError"}) =>
        CacheNodes(prev_compile.cache) \subseteq CacheNodes(delay_comp_nodes)

\* C35: an UnexpectedError was returned by a compile that started with a
\* delay node in the cache
C35_EarlyError ==
    /\ cg_pc = "done"
    /\ cg_result.kind = "UnexpectedError"
    /\ prev_compile.cache # {}

\* C36: when two Plugin tasks of one schedule list the same event-in buffer
\* and both are past the deactivate and error checks in a block, each receives
\* the events of the buffer as it was when the first of them ran (those
\* do_add lets through for it), and the buffer still holds them.
C36_FanOut ==
    (blk.peer_ran /\ blk.drained) =>
        /\ blk.in_events = as_unknown(SelectSeq(blk.event_in, do_add))
        /\ blk.peer_in = as_unknown(SelectSeq(blk.event_in,
                             LAMBDA e : do_add_of(e, OtherNode)))
        /\ blk.left = blk.event_in

\* C36, what does hold: the first of the two tasks receives its events, the
\* buffer is empty afterwards and the second task receives nothing
C36_FirstReaderTakesAll ==
    (blk.peer_ran /\ blk.drained) =>
        /\ blk.in_events = as_unknown(SelectSeq(blk.event_in, do_add))
        /\ blk.peer_in = <<>>
        /\ blk.left = <<>>

\* C36: both tasks have run on a buffer that held a transport event and an
\* event for the second plug-in
C36_SharedBuffer ==
    /\ blk.peer_ran
    /\ blk.drained
    /\ Len(blk.event_in) = 2
    /\ blk.event_in[1].type = "Transport"
    /\ blk.event_in[2].target = OtherNode

\* C37: the restarting flag covers one restart. Once a restart the plug-in
\* asked for is done (the plug-in was deactivated and activated again), an
\* on_idle that fetches no restart request and reads
\* DroppedAndReadyToDeactivate without PROCESS returns PluginDeactivated with
\* save_state.active = false and calls no activate, and an on_idle that
\* fetches PROCESS honours it: it raises the PROCESS request of an active
\* plug-in and activates an inactive one.
C37_RestartingCoversOneRestart ==
    [][(/\ track.restart = "done"
        /\ last'.op = "on_idle"
        /\ ~restart_requested(last'.request_flags)
        /\ ~mt'.remove_requested) =>
           /\ (last'.state = Dropped /\ "PROCESS" \notin last'.request_flags) =>
                 /\ last'.res = "PluginDeactivated"
                 /\ last'.save_state_active = "false"
                 /\ last'.activate = "not_called"
           /\ ("PROCESS" \in last'.request_flags
                 /\ last'.state \in {"Inactive", "InactiveWithError"}) =>
                 last'.activate \notin {"not_called", "AlreadyActive"}
           /\ ("PROCESS" \in last'.request_flags /\ is_active(last'.state)) =>
                 "PROCESS" \in host_request']_vars

\* C37: a restart was completed by this on_idle
C37_RestartDone ==
    /\ last.op = "on_idle"
    /\ track.restart = "done"
    /\ last.deactivated
    /\ last.res = "PluginActivated"

\* C37, what does hold: restarting is never reset, so after a restart every
\* deactivation that reaches on_idle without a removal request is followed by
\* an activate, and no PROCESS request is honoured any more
C37_RestartingIsSticky ==
    [][(/\ track.restart = "done"
        /\ last'.op = "on_idle"
        /\ ~mt'.remove_requested) =>
           /\ mt'.restarting
           /\ last'.state = Dropped =>
                 last'.res \in {"PluginActivated", "PluginFailedToActivate"}
           /\ last'.state # Dropped => last'.activate = "not_called"]_vars

\* C37: after a restart was done, the user's schedule_deactivate and the drop
\* of the processor, an on_idle without requests has called activate
C37_Reactivated ==
    /\ last.op = "on_idle"
    /\ last.state = Dropped
    /\ last.request_flags = {}
    /\ track.restart = "done"
    /\ ~mt.remove_requested
    /\ last.activate # "not_called"
    /\ Cardinality({p \in ProcIDs : procs[p].status = "dropped"}) = 2

\* C38: whenever on_idle has drained the processor -> main queue, the main
\* thread's gesturing flag of every parameter equals the is_adjusting_parameter
\* flag of the current processor, also after a deactivation in the middle of a
\* gesture and a reactivation; every ParamModifiedInfo of that on_idle carries
\* that flag as is_gesturing.
C38_GesturingAgrees ==
    (/\ last.op = "on_idle"
     /\ mt.param_queues # 0
     /\ procs[mt.param_queues].status = "live") =>
        /\ procs[mt.param_queues].from_proc_param_value = {}
              => \A i \in ParamIDs :
                    mt.gesturing_params[i]
                       = procs[mt.param_queues].is_adjusting_parameter[i]
        /\ \A m \in last.modified :
              last.activate = "not_called" =>
                 m.is_gesturing
                    = procs[mt.param_queues].is_adjusting_parameter[m.param_id]

\* C38, what does hold: the flags agree for the first processor
C38_FirstProcessor ==
    (/\ last.op = "on_idle"
     /\ mt.param_queues = 1
     /\ procs[1].status = "live"
     /\ procs[2].status = "none") =>
        /\ procs[1].from_proc_param_value = {}
        /\ \A i \in ParamIDs :
              mt.gesturing_params[i] = procs[1].is_adjusting_parameter[i]
        /\ \A m \in last.modified :
              m.is_gesturing = procs[1].is_adjusting_parameter[m.param_id]

\* C38: on_idle has reported a gesture-begin of the first processor
C38_Gesturing ==
    /\ last.op = "on_idle"
    /\ mt.param_queues = 1
    /\ procs[1].status = "live"
    /\ procs[2].status = "none"
    /\ \E m \in last.modified : m.is_gesturing

\* C38: a plain value update of the second processor, which is not adjusting
\* the parameter, is reported with is_gesturing = true
C38_StaleGesture ==
    /\ last.op = "on_idle"
    /\ mt.param_queues = 2
    /\ procs[1].status = "dropped"
    /\ procs[2].status = "live"
    /\ \E m \in last.modified :
          /\ m.is_gesturing
          /\ m.new_value # <<>>
          /\ ~procs[2].is_adjusting_parameter[m.param_id]

\* C39: after schedule_remove on a plug-in in any state, some later on_idle
\* returns PluginReadyToRemove, provided the idle ticks keep coming, the audio
\* thread keeps running and new schedules are published.
C39_RemovalCompletes == mt.remove_requested ~> engine.removed

\* C39: schedule_remove was called on an inactive plug-in and on_idle has
\* returned Ok
C39_StuckAtInactive ==
    /\ mt.remove_requested
    /\ plugin_state \in {"Inactive", "InactiveWithError"}
    /\ mt.audio_thread = 0
    /\ last.op = "on_idle"
    /\ last.state \in {"Inactive", "InactiveWithError"}
    /\ last.res = "Ok"
    /\ ~engine.removed

\* C39, what does hold: with removal requested, on_idle returns
\* PluginReadyToRemove exactly when it reads DroppedAndReadyToDeactivate
C39_OnlyAtDropped ==
    (last.op = "on_idle" /\ mt.remove_requested) =>
        (last.res = "PluginReadyToRemove" <=> last.state = Dropped)

\* C39: the removal of an active plug-in has completed
C39_Removed ==
    /\ engine.removed
    /\ last.op = "on_idle"
    /\ last.res = "PluginReadyToRemove"

(***************************************************************************)
(* C40: a host that new() makes without a main-thread plug-in has the     *)
(* shared state InactiveWithError, one made with a plug-in has Inactive.   *)
(* The code sets InactiveWithError in a word it then drops: the state of   *)
(* the host is a second new word, which reads Inactive.                    *)
(***************************************************************************)
C40_NewState ==
    last.op = "new" =>
        plugin_state = IF mt.main_thread THEN "Inactive" ELSE "InactiveWithError"

\* what does hold: every host starts in Inactive, and one without a plug-in
\* stays there
C40_NewIsInactive ==
    /\ last.op = "new" => plugin_state = "Inactive"
    /\ ~mt.main_thread => plugin_state = "Inactive"

\* a host made without a plug-in has refused an activation
C40_NotLoaded ==
    /\ ~mt.main_thread
    /\ last.op = "activate"
    /\ last.activate = "NotLoaded"

====
